---------------------------- MODULE Spec2Model ----------------------------
(***************************************************************************)
(* PhysioLens analytics core: baselines, recovery dip detection and the    *)
(* Pareto attribution engine (Backend/app/services/analytics).             *)
(*                                                                         *)
(* Numbers.  Python floats are modelled by exact rationals <<n, d>> with   *)
(* d > 0 in lowest terms; an absent value (None) is the empty tuple <<>>.  *)
(* math.sqrt is modelled by the root rounded down to 1/SqrtDen.  Dates are *)
(* day ordinals, so date - timedelta(days=k) is integer subtraction.       *)
(***************************************************************************)
EXTENDS Integers, Sequences, FiniteSets, TLC

\* ------------------------------------------------------------------ bounds
MaxRecs == 4

SqrtDen == 100

\* --------------------------------------------------------------- rationals
None == <<>>

Abs(x) == IF x < 0 THEN -x ELSE x

RECURSIVE GCD(_, _)
GCD(a, b) == IF b = 0 THEN a ELSE GCD(b, a % b)

Norm(n, d) ==
    LET s == IF d < 0 THEN -1 ELSE 1
        g == GCD(Abs(n), Abs(d))
    IN  IF n = 0 THEN <<0, 1>> ELSE <<(s * n) \div g, (s * d) \div g>>

R(k) == <<k, 1>>

RAdd(a, b) == Norm(a[1] * b[2] + b[1] * a[2], a[2] * b[2])
RSub(a, b) == Norm(a[1] * b[2] - b[1] * a[2], a[2] * b[2])
RMul(a, b) == Norm(a[1] * b[1], a[2] * b[2])
RDiv(a, b) == Norm(a[1] * b[2], a[2] * b[1])
RLe(a, b) == a[1] * b[2] <= b[1] * a[2]
RLt(a, b) == a[1] * b[2] < b[1] * a[2]
RAbs(a) == <<Abs(a[1]), a[2]>>

RECURSIVE ISqrtIn(_, _, _)
ISqrtIn(lo, hi, k) ==
    IF lo >= hi THEN lo
    ELSE LET mid == (lo + hi + 1) \div 2
         IN  IF mid * mid <= k THEN ISqrtIn(mid, hi, k) ELSE ISqrtIn(lo, mid - 1, k)

RSqrt(q) ==
    LET k == (q[1] * SqrtDen * SqrtDen) \div q[2]
    IN  Norm(ISqrtIn(0, k, k), SqrtDen)

RECURSIVE RSum(_)
RSum(xs) == IF xs = <<>> THEN R(0) ELSE RAdd(Head(xs), RSum(Tail(xs)))

\* ------------------------------------------------------------ DailyRecord
MetricKeys ==
    {"recovery_value", "sleep_duration", "sleep_consistency",
     "excercise_data_point", "nutrition_data_point"}

DailyRecord(d, rv, sd, sc, ex, nu) ==
    [date |-> d, recovery_value |-> rv, sleep_duration |-> sd,
     sleep_consistency |-> sc, excercise_data_point |-> ex,
     nutrition_data_point |-> nu]

\* ---------------------------------------------------------------- baselines
BaselineStats(mean, std, n) == [mean |-> mean, std |-> std, n |-> n]

_mean(xs) == RDiv(RSum(xs), R(Len(xs)))

_std(xs, mu) ==
    IF Len(xs) = 0 THEN R(0)
    ELSE LET sq == [i \in 1..Len(xs) |-> RMul(RSub(xs[i], mu), RSub(xs[i], mu))]
             var == RDiv(RSum(sq), R(Len(xs)))
         IN  RSqrt(var)

\* The explicit key map; an unknown key raises ValueError.
KnownMetric(key) == key \in MetricKeys

_get_metric_value(r, key) ==
    CASE key = "recovery_value" -> r.recovery_value
      [] key = "sleep_duration" -> r.sleep_duration
      [] key = "sleep_consistency" -> r.sleep_consistency
      [] key = "excercise_data_point" -> r.excercise_data_point
      [] key = "nutrition_data_point" -> r.nutrition_data_point

LastN(s, k) == SubSeq(s, Len(s) - k + 1, Len(s))

WindowAllRecords(records, days_window) == records

Window(records, days_window) ==
    IF Len(records) >= days_window THEN LastN(records, days_window) ELSE records

RECURSIVE NonMissing(_, _)
NonMissing(window, key) ==
    IF window = <<>> THEN <<>>
    ELSE LET v == _get_metric_value(Head(window), key)
             rest == NonMissing(Tail(window), key)
         IN  IF v = None THEN rest ELSE <<v>> \o rest

Raised(what) == [status |-> what, stats |-> BaselineStats(None, None, 0)]
Returned(stats) == [status |-> "ok", stats |-> stats]

compute_individual_baselines_ZeroForMissing(records, metric_key, days_window) ==
    IF days_window <= 0 THEN Raised("ValueError: days_window must be > 0")
    ELSE LET window == Window(records, days_window)
         IN  IF window # <<>> /\ ~KnownMetric(metric_key)
             THEN Raised("ValueError: Unknown metric key")
             ELSE LET xs == IF window = <<>> THEN <<>> ELSE NonMissing(window, metric_key)
                  IN  IF Len(xs) = 0 THEN Returned(BaselineStats(R(0), R(0), 0))
                      ELSE Returned(BaselineStats(_mean(xs), _std(xs, _mean(xs)), Len(xs)))

\* _get_metric_value is reached once per record of the window, so an unknown
\* key raises only when the window holds a record.
compute_individual_baselines(records, metric_key, days_window) ==
    IF days_window <= 0 THEN Raised("ValueError: days_window must be > 0")
    ELSE LET window == Window(records, days_window)
         IN  IF window # <<>> /\ ~KnownMetric(metric_key)
             THEN Raised("ValueError: Unknown metric key")
             ELSE LET xs == IF window = <<>> THEN <<>> ELSE NonMissing(window, metric_key)
                  IN  IF Len(xs) = 0 THEN Returned(BaselineStats(None, None, 0))
                      ELSE LET mu == _mean(xs)
                               sd == _std(xs, mu)
                           IN  Returned(BaselineStats(mu, sd, Len(xs)))

z_score_FlatAsUnit(value, baseline) ==
    IF baseline.mean = None \/ baseline.std = None \/ baseline.n = 0 THEN None
    ELSE IF baseline.std = R(0) THEN RSub(value, baseline.mean)
         ELSE RDiv(RSub(value, baseline.mean), baseline.std)

z_score_ZeroWhenFlat(value, baseline) ==
    IF baseline.mean = None \/ baseline.std = None \/ baseline.n = 0 THEN None
    ELSE IF baseline.std = R(0) THEN R(0)
         ELSE RDiv(RSub(value, baseline.mean), baseline.std)

z_score(value, baseline) ==
    IF baseline.mean = None \/ baseline.std = None \/ baseline.n = 0 THEN None
    ELSE IF baseline.std = R(0)
         THEN (IF value = baseline.mean THEN R(0) ELSE None)
         ELSE RDiv(RSub(value, baseline.mean), baseline.std)


\* --------------------------------------------------------------------- dips
DipThresholds(persistent_days) ==
    [large_dip_z |-> Norm(-125, 100), persistent_dip_z |-> Norm(-75, 100),
     persistent_days |-> persistent_days]

DipEvent(r, z, mu, kind) ==
    [date |-> r.date, recovery_value |-> r.recovery_value, baseline_mean |-> mu,
     z |-> z, magnitude |-> RSub(mu, r.recovery_value), kind |-> kind]

DipGatesPass_NoObservationGate(records, recovery_baseline, assumptions) ==
    /\ ~(Len(records) < assumptions.min_history_days)
    /\ ~(recovery_baseline.mean = None \/ recovery_baseline.std = None)

\* The three gates of detect_recovery_dips, in the order the code tests them.
DipGatesPass(records, recovery_baseline, assumptions) ==
    /\ ~(Len(records) < assumptions.min_history_days)
    /\ ~(recovery_baseline.mean = None \/ recovery_baseline.std = None)
    /\ ~(recovery_baseline.n < assumptions.min_observations)

PerDay(records, recovery_baseline) ==
    [i \in 1..Len(records) |->
        IF records[i].recovery_value = None THEN None
        ELSE z_score(records[i].recovery_value, recovery_baseline)]

Unscorable(r, z) == z = None \/ r.recovery_value = None

RECURSIVE LargePass_StopsAtMissing(_, _, _, _, _)
LargePass_StopsAtMissing(i, records, per_day, recovery_baseline, thresholds) ==
    IF i > Len(records) \/ Unscorable(records[i], per_day[i]) THEN <<>>
    ELSE LET rest == LargePass_StopsAtMissing(i + 1, records, per_day,
                                              recovery_baseline, thresholds)
         IN  IF RLe(per_day[i], thresholds.large_dip_z)
             THEN <<DipEvent(records[i], per_day[i], recovery_baseline.mean, "large")>>
                  \o rest
             ELSE rest

\* The loop of single-day large dips: the events appended from record i on.
RECURSIVE LargePass(_, _, _, _, _)
LargePass(i, records, per_day, recovery_baseline, thresholds) ==
    IF i > Len(records) THEN <<>>
    ELSE LET rest == LargePass(i + 1, records, per_day, recovery_baseline, thresholds)
         IN  IF Unscorable(records[i], per_day[i]) THEN rest
             ELSE IF RLe(per_day[i], thresholds.large_dip_z)
                  THEN <<DipEvent(records[i], per_day[i], recovery_baseline.mean, "large")>>
                       \o rest
                  ELSE rest

CloseRun_StrictlyLonger(dips, run, thresholds) ==
    IF Len(run) > thresholds.persistent_days THEN dips \o run ELSE dips

CloseRun(dips, run, thresholds) ==
    IF Len(run) >= thresholds.persistent_days THEN dips \o run ELSE dips

PersistentIter_MissingKeepsRun(dips, run, r, z, recovery_baseline, thresholds) ==
    IF Unscorable(r, z) THEN <<dips, run>>
    ELSE IF RLe(z, thresholds.persistent_dip_z)
         THEN <<dips, Append(run, DipEvent(r, z, recovery_baseline.mean, "persistent"))>>
         ELSE <<CloseRun(dips, run, thresholds), <<>>>>

\* One iteration of the persistent-run loop: <<dips, run>> after record r.
PersistentIter(dips, run, r, z, recovery_baseline, thresholds) ==
    IF Unscorable(r, z) THEN <<CloseRun(dips, run, thresholds), <<>>>>
    ELSE IF RLe(z, thresholds.persistent_dip_z)
         THEN <<dips, Append(run, DipEvent(r, z, recovery_baseline.mean, "persistent"))>>
         ELSE <<CloseRun(dips, run, thresholds), <<>>>>

DedupPut_LastWins(by_date, d) ==
    IF d.date \notin DOMAIN by_date THEN by_date @@ (d.date :> d)
    ELSE [by_date EXCEPT ![d.date] = d]

DedupPut(by_date, d) ==
    IF d.date \notin DOMAIN by_date THEN by_date @@ (d.date :> d)
    ELSE IF by_date[d.date].kind = "persistent" /\ d.kind = "large"
         THEN [by_date EXCEPT ![d.date] = d]
         ELSE by_date

RECURSIVE DedupFold(_, _)
DedupFold(by_date, dips) ==
    IF dips = <<>> THEN by_date
    ELSE DedupFold(DedupPut(by_date, Head(dips)), Tail(dips))

RECURSIVE SortedSeq(_)
SortedSeq(S) ==
    IF S = {} THEN <<>>
    ELSE LET m == CHOOSE x \in S : \A y \in S : x <= y
         IN  <<m>> \o SortedSeq(S \ {m})

DedupByDate_InsertionOrder(dips) ==
    LET by_date == DedupFold([k \in {} |-> 0], dips)
        firsts == SelectSeq([i \in 1..Len(dips) |-> i],
                      LAMBDA i : \A j \in 1..(i - 1) : dips[j].date # dips[i].date)
    IN  [i \in 1..Len(firsts) |-> by_date[dips[firsts[i]].date]]

DedupByDate(dips) ==
    LET by_date == DedupFold([k \in {} |-> 0], dips)
        keys == SortedSeq(DOMAIN by_date)
    IN  [i \in 1..Len(keys) |-> by_date[keys[i]]]

\* ------------------------------------------------------- pareto attribution
FactorConfig(key, fields) == [key |-> key, fields |-> fields]

DEFAULT_DRIVERS ==
    << FactorConfig("sleep", <<"sleep_duration", "sleep_consistency">>),
       FactorConfig("exercise", <<"excercise_data_point">>),
       FactorConfig("nutrition", <<"nutrition_data_point">>) >>

FactorKeys == {DEFAULT_DRIVERS[i].key : i \in 1..Len(DEFAULT_DRIVERS)}

AttributionThresholds == [abnormal_abs_z |-> Norm(125, 100)]

\* dict built in list order: for a date held by several records the last wins.
_index_records_by_date(records) ==
    LET dates == {records[i].date : i \in 1..Len(records)}
        last(d) == CHOOSE i \in 1..Len(records) :
                       /\ records[i].date = d
                       /\ \A j \in 1..Len(records) : records[j].date = d => j <= i
    IN  [d \in dates |-> records[last(d)]]

_get_field_value(r, field) == IF field \in DOMAIN r THEN r[field] ELSE None

BestZ_MostHarmfulField(i, best, record, factor, baselines) ==
    LET zs == {z_score(_get_field_value(record, factor.fields[k]),
                       baselines[factor.fields[k]]) :
                  k \in {k \in i..Len(factor.fields) :
                            _get_field_value(record, factor.fields[k]) # None}}
        harmful == {z \in zs \ {None} :
                       IF factor.key = "exercise" THEN RLt(R(0), z) ELSE RLt(z, R(0))}
    IN  IF harmful = {} THEN best
        ELSE LET z == CHOOSE x \in harmful : \A y \in harmful : RLe(RAbs(y), RAbs(x))
             IN  <<z, RAbs(z)>>

\* The loop over factor.fields: <<best_signed_z, best_abs_z>> after field i.
RECURSIVE BestZ(_, _, _, _, _)
BestZ(i, best, record, factor, baselines) ==
    IF i > Len(factor.fields) THEN best
    ELSE LET field == factor.fields[i]
             val == _get_field_value(record, field)
             Better(z) == IF z # None /\ RLt(best[2], RAbs(z)) THEN <<z, RAbs(z)>> ELSE best
         IN  BestZ(i + 1,
                   Better(IF field \in DOMAIN baselines /\ val # None
                          THEN z_score(val, baselines[field]) ELSE None),
                   record, factor, baselines)

Protective_NoFilter(key, best_signed_z) == FALSE

\* The direction filter: TRUE when the deviation is in the protective direction.
Protective(key, best_signed_z) ==
    IF key = "exercise" THEN RLe(best_signed_z, R(0))
    ELSE IF key \in {"sleep", "nutrition"} THEN RLe(R(0), best_signed_z)
    ELSE FALSE

\* The verdict on <<best_signed_z, best_abs_z>>.
Verdict(best, key, thresholds) ==
    IF best[1] = None THEN <<FALSE, R(0)>>
    ELSE IF Protective(key, best[1]) THEN <<FALSE, R(0)>>
    ELSE <<RLe(thresholds.abnormal_abs_z, best[2]), best[2]>>

_is_factor_abnormal(record, factor, baselines, thresholds) ==
    Verdict(BestZ(1, <<None, R(0)>>, record, factor, baselines), factor.key, thresholds)

_dip_weight(dip) == IF dip.kind = "large" THEN Norm(125, 100) ELSE R(1)

\* Dates dip.date - lag for lag in 0..max_lag_days.
LagDates(dip, max_lag_days) == {dip.date - lag : lag \in 0..max_lag_days}

DipContextDates_BeforeDipOnly(all_dips, max_lag_days) ==
    UNION {LagDates(all_dips[i], max_lag_days) \ {all_dips[i].date} : i \in 1..Len(all_dips)}

DipContextDates(all_dips, max_lag_days) ==
    UNION {LagDates(all_dips[i], max_lag_days) : i \in 1..Len(all_dips)}

LagScan_AnyEarlierDay(dip, factor, rec_by_date, baselines, constants, thresholds) ==
    LET days == {d \in DOMAIN rec_by_date : d <= dip.date}
        Best(strengths) ==
            IF strengths = {} THEN <<FALSE, R(0)>>
            ELSE <<TRUE, CHOOSE x \in strengths : \A y \in strengths : RLe(y, x)>>
    IN  Best({v[2] : v \in {w \in {_is_factor_abnormal(rec_by_date[d], factor,
                                                        baselines, thresholds) : d \in days}
                                : w[1]}})

\* The inner lag loop for one dip and one factor: <<contributed, best_strength>>.
LagScan(dip, factor, rec_by_date, baselines, constants, thresholds) ==
    LET days == {d \in LagDates(dip, constants.max_lag_days) : d \in DOMAIN rec_by_date}
        \* the strengths of the abnormal days of the window
        Best(strengths) ==
            IF strengths = {} THEN <<FALSE, R(0)>>
            ELSE <<TRUE, CHOOSE x \in strengths : \A y \in strengths : RLe(y, x)>>
    IN  Best({v[2] : v \in {w \in {_is_factor_abnormal(rec_by_date[d], factor,
                                                        baselines, thresholds) : d \in days}
                                : w[1]}})

\* Total and in-context abnormal days of a factor over every record.
AbnormalIdx(records, factor, baselines, thresholds) ==
    {i \in 1..Len(records) :
        _is_factor_abnormal(records[i], factor, baselines, thresholds)[1]}

NoisePenalty_HardCut(tot, in_context, max_noise_ratio) ==
    IF tot = 0 THEN R(1)
    ELSE IF RLt(max_noise_ratio, Norm(tot - in_context, tot)) THEN R(0) ELSE R(1)

\* The factor multiplied into a score: 1 when nothing is abnormal or the noise
\* ratio is within max_noise_ratio, 1 - min(1, excess) otherwise.
NoisePenalty(tot, in_context, max_noise_ratio) ==
    IF tot = 0 THEN R(1)
    ELSE LET noise_ratio == Norm(tot - in_context, tot)
         IN  IF RLt(max_noise_ratio, noise_ratio)
             THEN LET q == RDiv(RSub(noise_ratio, max_noise_ratio),
                                RSub(R(1), max_noise_ratio))
                      excess == IF RLt(R(1), q) THEN R(1) ELSE q
                  IN  RSub(R(1), excess)
             ELSE R(1)

RECURSIVE WindowsFrom(_, _, _, _)
WindowsFrom(i, dip_dates, contributing_dates, days_window) ==
    IF i > Len(dip_dates) THEN 0
    ELSE LET w_end == dip_dates[i] + (days_window - 1)
             inw == {j \in i..Len(dip_dates) : dip_dates[j] <= w_end}
             hit == \E j \in inw : dip_dates[j] \in contributing_dates
             \* advance i to the first dip date after this window
             stop == IF \E j \in i..Len(dip_dates) : dip_dates[j] > w_end
                     THEN CHOOSE j \in i..Len(dip_dates) :
                              /\ dip_dates[j] > w_end
                              /\ \A h \in i..(j - 1) : dip_dates[h] <= w_end
                     ELSE Len(dip_dates) + 1
         IN  (IF hit THEN 1 ELSE 0)
             + WindowsFrom(stop, dip_dates, contributing_dates, days_window)

RECURSIVE SortInts(_)
SortInts(s) ==
    IF s = <<>> THEN <<>>
    ELSE LET m == CHOOSE i \in 1..Len(s) : \A j \in 1..Len(s) : s[i] <= s[j]
         IN  <<s[m]>> \o SortInts([k \in 1..(Len(s) - 1) |-> IF k < m THEN s[k] ELSE s[k + 1]])

_count_consistent_windows(dip_dates, contributing_dates, days_window) ==
    IF dip_dates = <<>> THEN 0
    ELSE WindowsFrom(1, SortInts(dip_dates), contributing_dates, days_window)

\* ---------------------------------------------------------------- stability
StabilityResult(stable, meta) == [stable |-> stable, meta |-> meta]

\* abs(mu) < 1e-9 for a rational mu = n/d, computed without leaving 32 bits:
\* |n| * 10^9 < d  iff  |n| <= (d - 1) \div 10^9.
NearZero(mu) == Abs(mu[1]) <= (mu[2] - 1) \div 1000000000

\* cv: None when the mean is near zero, abs(sd / mu) otherwise.
CoefficientOfVariation(mu, sd) == IF NearZero(mu) THEN None ELSE RAbs(RDiv(sd, mu))

cv_threshold == Norm(8, 100)

allowed_dips == 0

StableByVariance(mu, sd) ==
    LET cv == CoefficientOfVariation(mu, sd)
    IN  \/ (cv # None /\ RLe(cv, cv_threshold))
        \/ (cv = None /\ sd = R(0))

StableVerdict_VarianceOnly(stable_by_variance, stable_by_dips) == stable_by_variance

\* stable = stable_by_variance and stable_by_dips
StableVerdict(stable_by_variance, stable_by_dips) == stable_by_variance /\ stable_by_dips

StabilityGate_ObservationsFirst(records, recovery_baseline, assumptions) ==
    IF Len(records) < assumptions.min_history_days THEN "insufficient_history"
    ELSE IF recovery_baseline.n < assumptions.min_observations
    THEN "insufficient_recovery_observations"
    ELSE IF recovery_baseline.mean = None \/ recovery_baseline.std = None
            \/ recovery_baseline.n = 0
    THEN "missing_recovery_baseline"
    ELSE "pass"

\* The three gates, in the order the code tests them.
StabilityGate(records, recovery_baseline, assumptions) ==
    IF Len(records) < assumptions.min_history_days THEN "insufficient_history"
    ELSE IF recovery_baseline.mean = None \/ recovery_baseline.std = None
            \/ recovery_baseline.n = 0
    THEN "missing_recovery_baseline"
    ELSE IF recovery_baseline.n < assumptions.min_observations
    THEN "insufficient_recovery_observations"
    ELSE "pass"

is_stable_recovery(records, recovery_baseline, dip_count, assumptions) ==
    LET gate == StabilityGate(records, recovery_baseline, assumptions)
    IN
    IF gate = "insufficient_history"
    THEN StabilityResult(FALSE, [reason |-> "insufficient_history",
                                 history_days |-> Len(records)])
    ELSE IF gate = "missing_recovery_baseline"
    THEN StabilityResult(FALSE, [reason |-> "missing_recovery_baseline"])
    ELSE IF gate = "insufficient_recovery_observations"
    THEN StabilityResult(FALSE, [reason |-> "insufficient_recovery_observations",
                                 n |-> recovery_baseline.n])
    ELSE LET mu == recovery_baseline.mean
             sd == recovery_baseline.std
             stable_by_variance == StableByVariance(mu, sd)
             stable_by_dips == dip_count <= allowed_dips
         IN  StabilityResult(StableVerdict(stable_by_variance, stable_by_dips),
                 [recovery_mean |-> mu, recovery_std |-> sd,
                  recovery_cv |-> CoefficientOfVariation(mu, sd),
                  cv_threshold |-> cv_threshold,
                  dip_count |-> dip_count, allowed_dips |-> allowed_dips,
                  stable_by_variance |-> stable_by_variance,
                  stable_by_dips |-> stable_by_dips])

\* ----------------------------------------------------------------- evidence
\* A record of app.domain.models.DailyRecord: the class the ingest store builds.
ModelsDailyRecord(d, rv, sd, sc, ex, nu) ==
    [date |-> d, recovery_value |-> rv, sleep_duration |-> sd, sleep_consistency |-> sc,
     exercise_load |-> ex, nutrition_value |-> nu]

\* getattr(record, name, None)
GetAttrOrNone(record, name) == IF name \in DOMAIN record THEN record[name] ELSE None

_safe_float(v) == v

\* The loop over factor.fields of _factor_abs_z_for_day: best after field i.
RECURSIVE BestAbsZ(_, _, _, _, _)
BestAbsZ(i, best, record, factor, baselines) ==
    IF i > Len(factor.fields) THEN best
    ELSE LET field == factor.fields[i]
             val == IF field \in DOMAIN baselines
                    THEN _safe_float(GetAttrOrNone(record, field)) ELSE None
             z == IF val = None THEN None ELSE z_score(val, baselines[field])
         IN  IF z = None THEN BestAbsZ(i + 1, best, record, factor, baselines)
             ELSE IF best = None \/ RLt(best, RAbs(z))
                  THEN BestAbsZ(i + 1, RAbs(z), record, factor, baselines)
                  ELSE BestAbsZ(i + 1, best, record, factor, baselines)

_factor_abs_z_for_day(record, factor, baselines) == BestAbsZ(1, None, record, factor, baselines)

FactorFlag_DirectionFiltered(record, factor, baselines, thresholds) ==
    LET res == _is_factor_abnormal(record, factor, baselines, thresholds)
    IN  [abnormal |-> res[1], abs_z |-> IF res[1] THEN res[2] ELSE R(0)]

\* The body of build_timeseries' loop over DEFAULT_DRIVERS for one factor.
FactorFlag(record, factor, baselines, thresholds) ==
    LET abs_z == _factor_abs_z_for_day(record, factor, baselines)
    IN  IF abs_z = None THEN [abnormal |-> FALSE, abs_z |-> R(0)]
        ELSE [abnormal |-> RLe(thresholds.abnormal_abs_z, abs_z), abs_z |-> abs_z]

\* dip_kind_by_date: persistent first, then large overwrites.
DipKindByDate(dips_result, d) ==
    IF \E i \in 1..Len(dips_result.large) : dips_result.large[i].date = d THEN "large"
    ELSE IF \E i \in 1..Len(dips_result.persistent) : dips_result.persistent[i].date = d
         THEN "persistent"
         ELSE "none"

\* date.isoformat(): the ISO text of a day, kept apart from the date itself.
IsoFormat(d) == <<"iso", d>>

\* The attributes the output dict reads straight off the record.
TimeseriesAttrs ==
    {"date", "recovery_value", "sleep_duration", "sleep_consistency",
     "exercise_load", "nutrition_value"}

TimeseriesDay(r, kind, factor_abn, factor_abs_z) ==
    [date |-> IsoFormat(r.date),
     recovery_value |-> _safe_float(r.recovery_value),
     sleep_duration |-> _safe_float(r.sleep_duration),
     sleep_consistency |-> _safe_float(r.sleep_consistency),
     exercise_load |-> _safe_float(r.exercise_load),
     nutrition_value |-> _safe_float(r.nutrition_value),
     is_dip |-> kind # "none", dip_kind |-> kind,
     factor_abnormal |-> factor_abn, factor_abs_z |-> factor_abs_z]

\* ==================================================================== state
VARIABLES
    \* compute_individual_baselines: arguments and outcome
    b_records, b_key, b_window, b_res,
    \* z_score: arguments and outcome
    z_value, z_baseline, z_res,
    \* detect_recovery_dips: arguments, position, locals and return value
    d_records, d_baseline, d_assumptions, d_thresholds, d_pc, d_i,
    per_day, dips, run, d_out,
    \* compute_pareto_attribution: arguments, position, locals and return value
    p_records, p_dips, p_baselines, p_constants, p_pc, p_k,
    raw_scores, occurrences, abs_z_sums, contributed_to_dip_dates,
    consistent_ok, p_result,
    \* is_stable_recovery: arguments and return value
    s_records, s_baseline, s_dip_count, s_assumptions, s_res,
    \* build_timeseries: arguments, position, loop locals and return value
    e_records, e_dips, e_baselines, e_thresholds, e_pc, e_i,
    factor_abn, factor_abs_z, e_out,
    \* build_insight: arguments and return value
    i_pareto, i_dips, i_stable, i_baselines, i_latest, i_assumptions,
    i_resources, i_res,
    \* run_pipeline: store contents, arguments, position, locals and outcome
    l_store, l_window_days, l_assumptions, l_pc, l_records_w, l_out

bVars == <<b_records, b_key, b_window, b_res>>
zVars == <<z_value, z_baseline, z_res>>
dVars == <<d_records, d_baseline, d_assumptions, d_thresholds, d_pc, d_i,
           per_day, dips, run, d_out>>
pInputs == <<p_records, p_dips, p_baselines, p_constants>>
pAcc == <<raw_scores, occurrences, abs_z_sums, contributed_to_dip_dates>>
pVars == <<pInputs, p_pc, p_k, pAcc, consistent_ok, p_result>>
sVars == <<s_records, s_baseline, s_dip_count, s_assumptions, s_res>>
eInputs == <<e_records, e_dips, e_baselines, e_thresholds>>
eVars == <<eInputs, e_pc, e_i, factor_abn, factor_abs_z, e_out>>
iInputs == <<i_pareto, i_dips, i_stable, i_baselines, i_latest, i_assumptions,
             i_resources>>
iVars == <<iInputs, i_res>>
lInputs == <<l_store, l_window_days, l_assumptions>>
lVars == <<lInputs, l_pc, l_records_w, l_out>>
vars == <<bVars, zVars, dVars, pVars, sVars, eVars, iVars, lVars>>

NotCalled == [status |-> "not called", stats |-> BaselineStats(None, None, 0)]

BIdle ==
    /\ b_records = <<>> /\ b_key = "recovery_value" /\ b_window = 1
    /\ b_res = NotCalled

ZIdle ==
    /\ z_value = R(0) /\ z_baseline = BaselineStats(None, None, 0)
    /\ z_res = [status |-> "not called", z |-> None]

DIdle ==
    /\ d_records = <<>> /\ d_baseline = BaselineStats(None, None, 0)
    /\ d_assumptions = [min_history_days |-> 0, min_observations |-> 0]
    /\ d_thresholds = DipThresholds(2)
    /\ d_pc = "idle" /\ d_i = 0
    /\ per_day = <<>> /\ dips = <<>> /\ run = <<>> /\ d_out = <<>>

NoKey == "None"

ZeroAcc == [k \in FactorKeys |-> R(0)]

NoResult == [factors_ranked |-> <<>>, dominant_key |-> NoKey, meta |-> [reason |-> "not called"]]

PIdle ==
    /\ p_records = <<>>
    /\ p_dips = [large |-> <<>>, persistent |-> <<>>, all |-> <<>>]
    /\ p_baselines = <<>> /\ p_constants = <<>>
    /\ p_pc = "idle" /\ p_k = 0
    /\ raw_scores = ZeroAcc /\ occurrences = [k \in FactorKeys |-> 0]
    /\ abs_z_sums = ZeroAcc /\ contributed_to_dip_dates = [k \in FactorKeys |-> {}]
    /\ consistent_ok = {} /\ p_result = NoResult

SNotCalled == StabilityResult(FALSE, [reason |-> "not called"])

SIdle ==
    /\ s_records = <<>> /\ s_baseline = BaselineStats(None, None, 0)
    /\ s_dip_count = 0
    /\ s_assumptions = [min_history_days |-> 0, min_observations |-> 0]
    /\ s_res = SNotCalled

NoFlags == [k \in FactorKeys |-> FALSE]

EIdle ==
    /\ e_records = <<>>
    /\ e_dips = [large |-> <<>>, persistent |-> <<>>, all |-> <<>>]
    /\ e_baselines = <<>> /\ e_thresholds = AttributionThresholds
    /\ e_pc = "idle" /\ e_i = 0
    /\ factor_abn = NoFlags /\ factor_abs_z = ZeroAcc /\ e_out = <<>>

INotCalled == [title |-> "not called"]

IIdle ==
    /\ i_pareto = NoResult
    /\ i_dips = [large |-> <<>>, persistent |-> <<>>, all |-> <<>>]
    /\ i_stable = FALSE /\ i_baselines = <<>> /\ i_latest = <<>>
    /\ i_assumptions = [min_history_days |-> 0, min_observations |-> 0]
    /\ i_resources = None /\ i_res = INotCalled

LNotCalled == [status |-> "not called"]

LIdle ==
    /\ l_store = <<>> /\ l_window_days = None
    /\ l_assumptions = [min_history_days |-> 0, baseline_window_days |-> 0]
    /\ l_pc = "idle" /\ l_records_w = <<>> /\ l_out = LNotCalled

\* ------------------------------------------------- baselines: inputs, call
MaxWindow == 3

UnknownKey == "not_a_real_metric"

BValues == {None, R(2), R(4)}

Decoy == R(9)

\* A record whose field `key` holds v; every other field holds the decoy.  An
\* unknown key leaves v in recovery_value.
BRecord(d, key, v) ==
    LET f(k) == IF k = key \/ (key = UnknownKey /\ k = "recovery_value") THEN v ELSE Decoy
    IN  DailyRecord(d, f("recovery_value"), f("sleep_duration"), f("sleep_consistency"),
                    f("excercise_data_point"), f("nutrition_data_point"))

\* Records two calendar days apart: the window counts records, not days.
BRecords(key, vals) == [i \in 1..Len(vals) |-> BRecord(2 * i, key, vals[i])]

SeqsUpTo(n, S) == UNION {[1..k -> S] : k \in 0..n}

InitBaselines ==
    /\ b_key \in MetricKeys \cup {UnknownKey}
    /\ b_records \in {BRecords(b_key, vals) : vals \in SeqsUpTo(MaxRecs, BValues)}
    /\ b_window \in 0..MaxWindow
    /\ b_res = NotCalled
    /\ ZIdle /\ DIdle /\ PIdle /\ SIdle /\ EIdle /\ IIdle /\ LIdle

BaselineCall ==
    /\ b_res = NotCalled
    /\ b_res' = compute_individual_baselines(b_records, b_key, b_window)
    /\ UNCHANGED <<b_records, b_key, b_window, zVars, dVars, pVars, sVars, eVars, iVars, lVars>>

\* z_score applied to the baseline just computed.
ZScoreOnComputed ==
    /\ b_res.status = "ok"
    /\ z_res.status = "not called"
    /\ \E v \in BValues \ {None} :
          /\ z_value' = v
          /\ z_baseline' = b_res.stats
          /\ z_res' = [status |-> "ok", z |-> z_score(v, b_res.stats)]
    /\ UNCHANGED <<bVars, dVars, pVars, sVars, eVars, iVars, lVars>>

NextBaselines == BaselineCall \/ ZScoreOnComputed

SpecBaselines == InitBaselines /\ [][NextBaselines]_vars

\* --------------------------------------------------- z_score: inputs, call
ZValues == {R(2), R(3), R(4), R(5), Norm(5001, 1000), R(87), R(92), R(100)}

ZBaselines ==
    {BaselineStats(None, None, 0), BaselineStats(R(5), None, 10),
     BaselineStats(None, R(1), 10), BaselineStats(R(5), R(1), 0),
     BaselineStats(R(5), R(0), 0), BaselineStats(R(5), R(0), 10),
     BaselineStats(R(3), R(1), 2), BaselineStats(R(3), Norm(94, 100), 3),
     BaselineStats(R(100), R(10), 10), BaselineStats(R(100), R(0), 1),
     BaselineStats(Norm(8, 3), R(0), 4), BaselineStats(R(4), R(2), 30),
     BaselineStats(R(100), R(10), 1), BaselineStats(R(2), R(0), 3)}

InitZScore ==
    /\ z_value \in ZValues
    /\ z_baseline \in ZBaselines
    /\ z_res = [status |-> "not called", z |-> None]
    /\ BIdle /\ DIdle /\ PIdle /\ SIdle /\ EIdle /\ IIdle /\ LIdle

ZScoreCall ==
    /\ z_res.status = "not called"
    /\ z_res' = [status |-> "ok", z |-> z_score(z_value, z_baseline)]
    /\ UNCHANGED <<z_value, z_baseline, bVars, dVars, pVars, sVars, eVars, iVars, lVars>>

NextZScore == ZScoreCall

SpecZScore == InitZScore /\ [][NextZScore]_vars

\* ------------------------------------------ detect_recovery_dips: inputs
MaxDipRecs == 4

\* Longest record sequence tried with a baseline that fails a gate or scores
\* no day (std = 0): what happens then does not depend on the records.
MaxUnscoredRecs == 2

DipValues == {None, R(100), R(92), R(87)}

\* Records in date order; a record may repeat the date of the one before it
\* (the store sorts by date and does not remove duplicates).
DipRecords(vals, steps) ==
    LET RECURSIVE dateOf(_)
        dateOf(i) == IF i = 1 THEN 1 ELSE dateOf(i - 1) + steps[i]
    IN  [i \in 1..Len(vals) |-> DailyRecord(dateOf(i), vals[i], None, None, None, None)]

DipBaselines ==
    {BaselineStats(R(100), R(10), 10), BaselineStats(R(100), R(0), 10),
     BaselineStats(None, None, 0), BaselineStats(R(100), R(10), 1)}

InitDips ==
    /\ \E n \in 0..MaxDipRecs :
          \E vals \in [1..n -> DipValues], steps \in [2..n -> {0, 1}] :
              d_records = DipRecords(vals, steps)
    /\ d_baseline \in IF Len(d_records) <= MaxUnscoredRecs
                      THEN DipBaselines
                      ELSE {BaselineStats(R(100), R(10), 10)}
    /\ d_assumptions = [min_history_days |-> 2, min_observations |-> 5]
    /\ d_thresholds \in {DipThresholds(k) : k \in {1, 2, 3}}
    /\ d_pc = "start" /\ d_i = 0
    /\ per_day = <<>> /\ dips = <<>> /\ run = <<>> /\ d_out = <<>>
    /\ BIdle /\ ZIdle /\ PIdle /\ SIdle /\ EIdle /\ IIdle /\ LIdle

dInputs == <<d_records, d_baseline, d_assumptions, d_thresholds>>

\* A failed gate: return [].
DipsReturnEmpty ==
    /\ d_pc = "start"
    /\ ~DipGatesPass(d_records, d_baseline, d_assumptions)
    /\ d_pc' = "done"
    /\ d_out' = <<>>
    /\ UNCHANGED <<dInputs, d_i, per_day, dips, run, bVars, zVars, pVars, sVars, eVars, iVars, lVars>>

\* Gates passed: the per-day z-scores and the single-day large dips.
DipsLargePass ==
    /\ d_pc = "start"
    /\ DipGatesPass(d_records, d_baseline, d_assumptions)
    /\ per_day' = PerDay(d_records, d_baseline)
    /\ dips' = LargePass(1, d_records, per_day', d_baseline, d_thresholds)
    /\ run' = <<>>
    /\ d_i' = 1
    /\ d_pc' = "scan"
    /\ UNCHANGED <<dInputs, d_out, bVars, zVars, pVars, sVars, eVars, iVars, lVars>>

\* One iteration of the persistent-run loop.
DipsPersistentStep ==
    /\ d_pc = "scan"
    /\ d_i <= Len(d_records)
    /\ LET it == PersistentIter(dips, run, d_records[d_i], per_day[d_i],
                                d_baseline, d_thresholds)
       IN  dips' = it[1] /\ run' = it[2]
    /\ d_i' = d_i + 1
    /\ UNCHANGED <<dInputs, d_pc, per_day, d_out, bVars, zVars, pVars, sVars, eVars, iVars, lVars>>

\* Loop over: close the trailing run (run itself is left as it is).
DipsCloseTrailingRun ==
    /\ d_pc = "scan"
    /\ d_i > Len(d_records)
    /\ dips' = CloseRun(dips, run, d_thresholds)
    /\ d_pc' = "dedup"
    /\ UNCHANGED <<dInputs, d_i, per_day, run, d_out, bVars, zVars, pVars, sVars, eVars, iVars, lVars>>

\* Deduplicate by date and return chronologically.
DipsReturn ==
    /\ d_pc = "dedup"
    /\ d_out' = DedupByDate(dips)
    /\ d_pc' = "done"
    /\ UNCHANGED <<dInputs, d_i, per_day, dips, run, bVars, zVars, pVars, sVars, eVars, iVars, lVars>>

NextDips ==
    \/ DipsReturnEmpty
    \/ DipsLargePass
    \/ DipsPersistentStep
    \/ DipsCloseTrailingRun
    \/ DipsReturn

SpecDips == InitDips /\ [][NextDips]_vars

\* -------------------------------------- compute_pareto_attribution: inputs
MaxParetoRecs == 2

MaxDips == 2

ParetoBaselines ==
    [k \in MetricKeys \ {"recovery_value"} |->
        CASE k = "sleep_duration" -> BaselineStats(R(8), R(1), 30)
          [] k = "sleep_consistency" -> BaselineStats(Norm(4, 5), Norm(1, 10), 30)
          [] k = "excercise_data_point" -> BaselineStats(R(0), R(1), 30)
          [] k = "nutrition_data_point" -> BaselineStats(R(10), R(1), 30)]

\* One day's behaviour: <<sleep_duration, sleep_consistency, exercise, nutrition>>.
DayProfiles ==
    { <<R(6), Norm(4, 5), R(0), R(10)>>,             \* sleep deficit, z = -2
      <<R(12), Norm(4, 5), R(-3), R(13)>>,           \* every factor protective
      <<R(8), None, R(3), R(10)>>,                   \* exercise load, z = +3
      <<Norm(13, 2), R(1), R(0), R(10)>>,            \* sleep: -3/2 and +2
      <<R(6), Norm(3, 5), R(2), Norm(17, 2)>> }      \* all three in the harmful direction

ParetoRecords(profiles) ==
    [i \in 1..Len(profiles) |->
        DailyRecord(i, R(50), profiles[i][1], profiles[i][2], profiles[i][3], profiles[i][4])]

MkDip(d, kind) ==
    [date |-> d, recovery_value |-> R(50), baseline_mean |-> R(60), z |-> R(-2),
     magnitude |-> R(10), kind |-> kind]

OfKind(events, kind) == SelectSeq(events, LAMBDA e : e.kind = kind)

\* Dip events on dates of the records, in date order, split by kind.
DipResults(n) ==
    {LET dates == SortedSeq(DOMAIN kinds)
         all == [i \in 1..Len(dates) |-> MkDip(dates[i], kinds[dates[i]])]
     IN  [large |-> OfKind(all, "large"), persistent |-> OfKind(all, "persistent"),
          all |-> all]
       : kinds \in UNION {[D -> {"large", "persistent"}] :
                              D \in {D \in SUBSET (1..n) : Cardinality(D) <= MaxDips}}}

AnalysisAssumptions(mhd, lag, noise, bdw, mcw, cap, mes) ==
    [min_history_days |-> mhd, max_lag_days |-> lag, max_noise_ratio |-> noise,
     baseline_days_window |-> bdw, min_consistent_windows |-> mcw,
     max_explanatory_factors |-> cap, min_effect_size |-> mes]

ParetoConstants ==
    { AnalysisAssumptions(1, 0, R(1), 7, 1, 3, Norm(1, 4)),
      AnalysisAssumptions(2, 1, Norm(2, 5), 2, 2, 3, Norm(3, 20)),
      AnalysisAssumptions(1, 1, Norm(2, 5), 2, 1, 1, Norm(3, 20)),
      AnalysisAssumptions(1, 0, Norm(2, 5), 1, 2, 2, Norm(3, 5)),
      AnalysisAssumptions(3, 1, R(0), 1, 2, 3, Norm(3, 20)) }

InitPareto ==
    /\ p_records \in {ParetoRecords(ps) : ps \in SeqsUpTo(MaxParetoRecs, DayProfiles)}
    /\ p_dips \in DipResults(Len(p_records))
    /\ p_baselines = ParetoBaselines
    /\ p_constants \in ParetoConstants
    /\ p_pc = "start" /\ p_k = 0
    /\ raw_scores = ZeroAcc /\ occurrences = [k \in FactorKeys |-> 0]
    /\ abs_z_sums = ZeroAcc /\ contributed_to_dip_dates = [k \in FactorKeys |-> {}]
    /\ consistent_ok = {} /\ p_result = NoResult
    /\ BIdle /\ ZIdle /\ DIdle /\ SIdle /\ EIdle /\ IIdle /\ LIdle

ParetoResult(factors_ranked, dominant_key, meta) ==
    [factors_ranked |-> factors_ranked, dominant_key |-> dominant_key, meta |-> meta]

FactorOf(key) == DEFAULT_DRIVERS[CHOOSE i \in 1..Len(DEFAULT_DRIVERS) : DEFAULT_DRIVERS[i].key = key]

SumScores(scores) == RSum([i \in 1..Len(DEFAULT_DRIVERS) |-> scores[DEFAULT_DRIVERS[i].key]])

ParetoGate_DipsFirst(records, dips_result, constants) ==
    IF Len(dips_result.all) = 0 THEN "no_dips"
    ELSE IF Len(records) < constants.min_history_days THEN "insufficient_history"
    ELSE "pass"

\* The two preconditions, in the order the code tests them.
ParetoGate(records, dips_result, constants) ==
    IF Len(records) < constants.min_history_days THEN "insufficient_history"
    ELSE IF Len(dips_result.all) = 0 THEN "no_dips"
    ELSE "pass"

BareReasonMeta_WithCounts(reason, dips_result, constants) ==
    [reason |-> reason, dip_count |-> Len(dips_result.all),
     large_dip_count |-> Len(dips_result.large),
     persistent_dip_count |-> Len(dips_result.persistent),
     max_lag_days |-> constants.max_lag_days,
     baseline_days_window |-> constants.baseline_days_window,
     consistent_factors |-> <<>>]

\* The meta of the two reason-coded returns made after the dip loop.
BareReasonMeta(reason, dips_result, constants) ==
    [reason |-> reason, dip_count |-> Len(dips_result.all),
     max_lag_days |-> constants.max_lag_days]

\* ------------------------------------- compute_pareto_attribution: the steps
\* Gate 1: too little history.
ParetoInsufficientHistory ==
    /\ p_pc = "start"
    /\ ParetoGate(p_records, p_dips, p_constants) = "insufficient_history"
    /\ p_result' = ParetoResult(<<>>, NoKey,
                       [reason |-> "insufficient_history", history_days |-> Len(p_records)])
    /\ p_pc' = "done"
    /\ UNCHANGED <<pInputs, p_k, pAcc, consistent_ok, bVars, zVars, dVars, sVars, eVars, iVars, lVars>>

\* Gate 2: no dip events.
ParetoNoDips ==
    /\ p_pc = "start"
    /\ ParetoGate(p_records, p_dips, p_constants) = "no_dips"
    /\ p_result' = ParetoResult(<<>>, NoKey, [reason |-> "no_dips", dip_count |-> 0])
    /\ p_pc' = "done"
    /\ UNCHANGED <<pInputs, p_k, pAcc, consistent_ok, bVars, zVars, dVars, sVars, eVars, iVars, lVars>>

\* Both gates passed: the accumulators are created and the dip loop starts.
ParetoBegin ==
    /\ p_pc = "start"
    /\ ParetoGate(p_records, p_dips, p_constants) = "pass"
    /\ raw_scores' = ZeroAcc
    /\ occurrences' = [k \in FactorKeys |-> 0]
    /\ abs_z_sums' = ZeroAcc
    /\ contributed_to_dip_dates' = [k \in FactorKeys |-> {}]
    /\ p_k' = 1
    /\ p_pc' = "attribute"
    /\ UNCHANGED <<pInputs, consistent_ok, p_result, bVars, zVars, dVars, sVars, eVars, iVars, lVars>>

\* One dip against every factor: the accumulators after the factor loop.
AttributeDip(dip, records, baselines, constants, thresholds, scores, occ, zsums, contrib) ==
    LET dip_w == _dip_weight(dip)
        Add(scan) ==
          [raw_scores |-> [k \in FactorKeys |->
                            IF scan[k][1] THEN RAdd(scores[k], RMul(dip_w, scan[k][2]))
                            ELSE scores[k]],
         occurrences |-> [k \in FactorKeys |->
                            IF scan[k][1] THEN occ[k] + 1 ELSE occ[k]],
         abs_z_sums |-> [k \in FactorKeys |->
                            IF scan[k][1] THEN RAdd(zsums[k], scan[k][2]) ELSE zsums[k]],
         contributed_to_dip_dates |-> [k \in FactorKeys |->
                            IF scan[k][1] THEN contrib[k] \cup {dip.date} ELSE contrib[k]]]
        Scans(rec_by_date) ==
            [k \in FactorKeys |->
                LagScan(dip, FactorOf(k), rec_by_date, baselines, constants, thresholds)]
    IN  Add(Scans(_index_records_by_date(records)))

\* One iteration of the core attribution loop: dip p_k against every factor.
ParetoAttributeDip ==
    /\ p_pc = "attribute"
    /\ p_k <= Len(p_dips.all)
    /\ \E acc \in {AttributeDip(p_dips.all[p_k], p_records, p_baselines, p_constants,
                                AttributionThresholds, raw_scores, occurrences,
                                abs_z_sums, contributed_to_dip_dates)} :
          /\ raw_scores' = acc.raw_scores
          /\ occurrences' = acc.occurrences
          /\ abs_z_sums' = acc.abs_z_sums
          /\ contributed_to_dip_dates' = acc.contributed_to_dip_dates
    /\ p_k' = p_k + 1
    /\ UNCHANGED <<pInputs, p_pc, consistent_ok, p_result, bVars, zVars, dVars, sVars, eVars, iVars, lVars>>

\* Loop over and nothing contributed.
ParetoNoSignal ==
    /\ p_pc = "attribute"
    /\ p_k > Len(p_dips.all)
    /\ SumScores(raw_scores) = R(0)
    /\ p_result' = ParetoResult(<<>>, NoKey,
                       BareReasonMeta("no_explanatory_signal", p_dips, p_constants))
    /\ p_pc' = "done"
    /\ UNCHANGED <<pInputs, p_k, pAcc, consistent_ok, bVars, zVars, dVars, sVars, eVars, iVars, lVars>>

PenalizedScores ==
    LET ctx == DipContextDates(p_dips.all, p_constants.max_lag_days)
        abn == [k \in FactorKeys |->
                   AbnormalIdx(p_records, FactorOf(k), p_baselines, AttributionThresholds)]
        tot(k) == Cardinality(abn[k])
        inctx(k) == Cardinality({i \in abn[k] : p_records[i].date \in ctx})
    IN  [k \in FactorKeys |->
            RMul(raw_scores[k], NoisePenalty(tot(k), inctx(k), p_constants.max_noise_ratio))]

\* The noise penalty over every record, and the re-check after it.
ParetoNoisePenalty ==
    /\ p_pc = "attribute"
    /\ p_k > Len(p_dips.all)
    /\ SumScores(raw_scores) # R(0)
    /\ raw_scores' = PenalizedScores
    /\ IF RLe(SumScores(raw_scores'), R(0))
       THEN /\ p_result' = ParetoResult(<<>>, NoKey,
                              BareReasonMeta("all_penalized_as_noise", p_dips, p_constants))
            /\ p_pc' = "done"
       ELSE /\ p_result' = p_result
            /\ p_pc' = "consistency"
    /\ UNCHANGED <<pInputs, p_k, occurrences, abs_z_sums, contributed_to_dip_dates,
                   consistent_ok, bVars, zVars, dVars, sVars, eVars, iVars, lVars>>

ConsistencyScore_Drops(score, consistent) == IF consistent THEN score ELSE R(0)

\* raw_scores[factor.key] *= 0.5 for a factor that is not consistent.
ConsistencyScore(score, consistent) ==
    IF consistent THEN score ELSE RMul(score, Norm(1, 2))

ConsistentWindows(key) ==
    _count_consistent_windows(
        SortInts([i \in 1..Len(p_dips.all) |-> p_dips.all[i].date]),
        contributed_to_dip_dates[key], p_constants.baseline_days_window)

\* Consistency windows: an inconsistent factor is halved, not dropped.
ParetoConsistency ==
    /\ p_pc = "consistency"
    /\ consistent_ok' = {k \in FactorKeys :
                            ConsistentWindows(k) >= p_constants.min_consistent_windows}
    /\ raw_scores' = [k \in FactorKeys |->
                         ConsistencyScore(raw_scores[k], k \in consistent_ok')]
    /\ p_pc' = "rank"
    /\ UNCHANGED <<pInputs, p_k, occurrences, abs_z_sums, contributed_to_dip_dates,
                   p_result, bVars, zVars, dVars, sVars, eVars, iVars, lVars>>

Ranked_DeclarationOrder(scores) ==
    [p \in 1..Len(DEFAULT_DRIVERS) |-> DEFAULT_DRIVERS[p].key]

\* sorted(raw_scores.items(), key=score, reverse=True): stable, so equal scores
\* keep the order of the factor declarations.
Ranked(scores) ==
    LET n == Len(DEFAULT_DRIVERS)
        key(i) == DEFAULT_DRIVERS[i].key
        pos(i) == 1 + Cardinality({j \in 1..n :
                        \/ RLt(scores[key(i)], scores[key(j)])
                        \/ (scores[key(j)] = scores[key(i)] /\ j < i)})
    IN  [p \in 1..n |-> key(CHOOSE i \in 1..n : pos(i) = p)]

FactorAttribution(key, percent, raw_score, occ, avg_abs_z) ==
    [key |-> key, percent |-> percent, raw_score |-> raw_score, occurrences |-> occ,
     avg_abs_z |-> avg_abs_z]

Percent_Fraction(score, total_score) == RDiv(score, total_score)

Percent(score, total_score) == RMul(RDiv(score, total_score), R(100))

Attribution(key, scores, total_score, occ, zsums) ==
    FactorAttribution(key, Percent(scores[key], total_score), scores[key], occ[key],
                      IF occ[key] > 0 THEN RDiv(zsums[key], R(occ[key])) ELSE R(0))

RECURSIVE AttributionsOf(_, _, _, _, _)
AttributionsOf(ranked, scores, total_score, occ, zsums) ==
    IF ranked = <<>> THEN <<>>
    ELSE IF RLe(scores[Head(ranked)], R(0))
         THEN AttributionsOf(Tail(ranked), scores, total_score, occ, zsums)
         ELSE <<Attribution(Head(ranked), scores, total_score, occ, zsums)>>
              \o AttributionsOf(Tail(ranked), scores, total_score, occ, zsums)

Attributions(scores, occ, zsums) ==
    AttributionsOf(Ranked(scores), scores, SumScores(scores), occ, zsums)

\* sorted(list(consistent_ok)): the factor keys in alphabetical order.
SortedKeys(S) == SelectSeq(<<"exercise", "nutrition", "sleep">>, LAMBDA k : k \in S)

TopK(s, k) == SubSeq(s, 1, IF k < Len(s) THEN k ELSE Len(s))

DominantKey_AlwaysTop(factors_ranked, min_effect_size) ==
    IF factors_ranked # <<>> THEN factors_ranked[1].key ELSE NoKey

DominantKey(factors_ranked, min_effect_size) ==
    IF factors_ranked # <<>>
       /\ RLe(min_effect_size, RDiv(factors_ranked[1].percent, R(100)))
    THEN factors_ranked[1].key
    ELSE NoKey

\* Normalise to percentages, rank, keep the top K, decide the dominant factor.
ParetoRank ==
    /\ p_pc = "rank"
    /\ \E factors_ranked \in {TopK(Attributions(raw_scores, occurrences, abs_z_sums),
                                   p_constants.max_explanatory_factors)} :
          p_result' = ParetoResult(factors_ranked,
               DominantKey(factors_ranked, p_constants.min_effect_size),
               [dip_count |-> Len(p_dips.all),
                large_dip_count |-> Len(p_dips.large),
                persistent_dip_count |-> Len(p_dips.persistent),
                max_lag_days |-> p_constants.max_lag_days,
                baseline_days_window |-> p_constants.baseline_days_window,
                abnormal_abs_z |-> AttributionThresholds.abnormal_abs_z,
                consistent_factors |-> SortedKeys(consistent_ok)])
    /\ p_pc' = "done"
    /\ UNCHANGED <<pInputs, p_k, pAcc, consistent_ok, bVars, zVars, dVars, sVars, eVars, iVars, lVars>>

NextPareto ==
    \/ ParetoInsufficientHistory
    \/ ParetoNoDips
    \/ ParetoBegin
    \/ ParetoAttributeDip
    \/ ParetoNoSignal
    \/ ParetoNoisePenalty
    \/ ParetoConsistency
    \/ ParetoRank

SpecPareto == InitPareto /\ [][NextPareto]_vars

\* --------------------------------------------- is_stable_recovery: inputs, call
MaxStabRecs == 2

StabMeans == {None, R(0), Norm(1, 2000000000), R(100), R(-100)}

StabStds == {None, R(0), Norm(1, 2), R(8), R(9)}

StabRecords(n) == [i \in 1..n |-> ModelsDailyRecord(i, None, None, None, None, None)]

InitStability ==
    /\ s_records \in {StabRecords(n) : n \in 0..MaxStabRecs}
    /\ s_baseline \in {BaselineStats(m, sd, n) : m \in StabMeans, sd \in StabStds,
                                                  n \in {0, 1, 5}}
    /\ s_dip_count \in 0..2
    /\ s_assumptions \in {[min_history_days |-> 1, min_observations |-> 1],
                          [min_history_days |-> 2, min_observations |-> 5]}
    /\ s_res = SNotCalled
    /\ BIdle /\ ZIdle /\ DIdle /\ PIdle /\ EIdle /\ IIdle /\ LIdle

StabilityCall ==
    /\ s_res = SNotCalled
    /\ s_res' = is_stable_recovery(s_records, s_baseline, s_dip_count, s_assumptions)
    /\ UNCHANGED <<s_records, s_baseline, s_dip_count, s_assumptions,
                   bVars, zVars, dVars, pVars, eVars, iVars, lVars>>

NextStability == StabilityCall

SpecStability == InitStability /\ [][NextStability]_vars

\* ------------------------------------------------ build_timeseries: inputs
MaxEvRecs == 2

\* The records of one call are all of one class: the store's
\* app.domain.models.DailyRecord or app.domain.daily_record.DailyRecord.
EvRecords(profiles, class) ==
    [i \in 1..Len(profiles) |->
        IF class = "models"
        THEN ModelsDailyRecord(i, R(50), profiles[i][1], profiles[i][2],
                               profiles[i][3], profiles[i][4])
        ELSE DailyRecord(i, R(50), profiles[i][1], profiles[i][2],
                         profiles[i][3], profiles[i][4])]

\* Dip events on dates of the records; a date may be in large, in persistent
\* or in both lists.
EvDipResults(n) ==
    {LET dates == SortedSeq(DOMAIN kinds)
         mk(kind) ==
             LET ds == SelectSeq(dates, LAMBDA d : kinds[d] \in {kind, "both"})
             IN  [i \in 1..Len(ds) |-> MkDip(ds[i], kind)]
         all == [i \in 1..Len(dates) |->
                    MkDip(dates[i], IF kinds[dates[i]] = "persistent"
                                    THEN "persistent" ELSE "large")]
     IN  [large |-> mk("large"), persistent |-> mk("persistent"), all |-> all]
       : kinds \in UNION {[D -> {"large", "persistent", "both"}] : D \in SUBSET (1..n)}}

InitEvidence ==
    /\ \E class \in {"models", "daily_record"} :
          e_records \in {EvRecords(ps, class) : ps \in SeqsUpTo(MaxEvRecs, DayProfiles)}
    /\ e_dips \in EvDipResults(Len(e_records))
    /\ e_baselines = ParetoBaselines
    /\ e_thresholds \in {AttributionThresholds, [abnormal_abs_z |-> R(3)]}
    /\ e_pc = "loop" /\ e_i = 1
    /\ factor_abn = NoFlags /\ factor_abs_z = ZeroAcc /\ e_out = <<>>
    /\ BIdle /\ ZIdle /\ DIdle /\ PIdle /\ SIdle /\ IIdle /\ LIdle

\* One iteration of the loop over records: the flags of every factor, then
\* the output dict, whose construction reads r.exercise_load and
\* r.nutrition_value and raises AttributeError on a record without them.
EvidenceDay ==
    /\ e_pc = "loop"
    /\ e_i <= Len(e_records)
    /\ LET r == e_records[e_i]
           kind == DipKindByDate(e_dips, r.date)
           flag == [k \in FactorKeys |-> FactorFlag(r, FactorOf(k), e_baselines, e_thresholds)]
       IN  /\ factor_abn' = [k \in FactorKeys |-> flag[k].abnormal]
           /\ factor_abs_z' = [k \in FactorKeys |-> flag[k].abs_z]
           /\ IF TimeseriesAttrs \subseteq DOMAIN r
              THEN /\ e_out' = Append(e_out, TimeseriesDay(r, kind, factor_abn', factor_abs_z'))
                   /\ e_i' = e_i + 1
                   /\ e_pc' = "loop"
              ELSE /\ e_pc' = "AttributeError"
                   /\ UNCHANGED <<e_i, e_out>>
    /\ UNCHANGED <<eInputs, bVars, zVars, dVars, pVars, sVars, iVars, lVars>>

EvidenceReturn ==
    /\ e_pc = "loop"
    /\ e_i > Len(e_records)
    /\ e_pc' = "done"
    /\ UNCHANGED <<eInputs, e_i, factor_abn, factor_abs_z, e_out,
                   bVars, zVars, dVars, pVars, sVars, iVars, lVars>>

NextEvidence ==
    \/ EvidenceDay
    \/ EvidenceReturn

SpecEvidence == InitEvidence /\ [][NextEvidence]_vars

\* =============================================================== properties

\* ---- detect_recovery_dips: what the per-record facts are, stated from the
\* ---- inputs alone
DZ(i) ==
    IF d_records[i].recovery_value = None THEN None
    ELSE z_score(d_records[i].recovery_value, d_baseline)

IsLargeDay(i) == DZ(i) # None /\ RLe(DZ(i), d_thresholds.large_dip_z)

Qualifies(i) == DZ(i) # None /\ RLe(DZ(i), d_thresholds.persistent_dip_z)

\* The unbroken stretch of qualifying records around record i.
StretchLo(i) == CHOOSE lo \in 1..i :
                    /\ \A k \in lo..i : Qualifies(k)
                    /\ (lo = 1 \/ ~Qualifies(lo - 1))

StretchHi(i) == CHOOSE hi \in i..Len(d_records) :
                    /\ \A k \in i..hi : Qualifies(k)
                    /\ (hi = Len(d_records) \/ ~Qualifies(hi + 1))

InQualifyingRun(i) ==
    /\ Qualifies(i)
    /\ StretchHi(i) - StretchLo(i) + 1 >= d_thresholds.persistent_days

DipsDone == d_pc = "done" /\ DipGatesPass(d_records, d_baseline, d_assumptions)

OutAt(d) == {k \in DOMAIN d_out : d_out[k].date = d}

\* C1: with the gates passed, a date that is both a large dip and a member of
\* a qualifying persistent run appears exactly once in the returned list, and
\* the event returned for it has kind "large".
C1_LargeWinsDedup ==
    DipsDone =>
        \A i, j \in 1..Len(d_records) :
            (d_records[i].date = d_records[j].date /\ IsLargeDay(i) /\ InQualifyingRun(j))
            => /\ Cardinality(OutAt(d_records[i].date)) = 1
               /\ \A k \in OutAt(d_records[i].date) : d_out[k].kind = "large"

C1_Witness ==
    /\ DipsDone
    /\ \E i \in 1..Len(d_records) :
          /\ IsLargeDay(i) /\ InQualifyingRun(i)
          /\ \E k \in OutAt(d_records[i].date) : d_out[k].kind = "large"
          /\ \E k \in DOMAIN d_out : d_out[k].kind = "persistent"

\* C2: a missing or unscorable record ends the current run.  During the scan
\* the run buffer holds exactly the qualifying records that end at the record
\* just read, and an event is returned as persistent only for a date that has
\* a qualifying record whose unbroken stretch of qualifying records is at
\* least persistent_days long.
C2_MissingBreaksRun ==
    /\ (d_pc = "scan" /\ d_i > 1) =>
          IF Qualifies(d_i - 1)
          THEN /\ Len(run) = (d_i - 1) - StretchLo(d_i - 1) + 1
               /\ \A k \in 1..Len(run) : run[k].date = d_records[StretchLo(d_i - 1) + k - 1].date
          ELSE run = <<>>
    /\ DipsDone =>
          \A k \in DOMAIN d_out :
              d_out[k].kind = "persistent" =>
                  \E i \in 1..Len(d_records) :
                      /\ d_records[i].date = d_out[k].date
                      /\ InQualifyingRun(i)
                      /\ d_out[k].z = DZ(i)

C2_Witness ==
    /\ DipsDone
    /\ d_thresholds.persistent_days = 2
    /\ \E i \in 2..(Len(d_records) - 1) :
          /\ d_records[i].recovery_value = None
          /\ Qualifies(i - 1) /\ OutAt(d_records[i - 1].date) = {}
          /\ Qualifies(i + 1)
          /\ \E k \in OutAt(d_records[i + 1].date) : d_out[k].kind = "persistent"

\* C10: when a gate fails (too few records, no baseline mean or std, too few
\* baseline observations) the detector never enters its passes and returns
\* the empty list, whatever the recovery values are.
C10_GateFailReturnsEmpty ==
    (\/ Len(d_records) < d_assumptions.min_history_days
     \/ d_baseline.mean = None
     \/ d_baseline.std = None
     \/ d_baseline.n < d_assumptions.min_observations) =>
        /\ d_pc \in {"idle", "start", "done"}
        /\ d_out = <<>> /\ dips = <<>>

C10_Witness ==
    /\ d_pc = "done" /\ d_out = <<>>
    /\ Len(d_records) >= d_assumptions.min_history_days
    /\ d_baseline.mean # None /\ d_baseline.std # None
    /\ d_baseline.n < d_assumptions.min_observations
    /\ \E i \in 1..Len(d_records) : d_records[i].recovery_value = R(87)

\* ---- compute_individual_baselines
BWindowIdx ==
    IF Len(b_records) >= b_window
    THEN (Len(b_records) - b_window + 1)..Len(b_records)
    ELSE 1..Len(b_records)

BPresent == {i \in BWindowIdx : _get_metric_value(b_records[i], b_key) # None}

\* Older histories to put in front of the last b_window records.
OlderHistories ==
    {BRecords(b_key, vals) : vals \in SeqsUpTo(2, BValues \cup {R(7)})}

\* C6: the result depends only on the last days_window records (all of them
\* when there are fewer): n counts the non-missing values among those records,
\* and any sequence ending in the same days_window records gives the same
\* BaselineStats.
C6_LastWindowOnly ==
    b_res.status = "ok" =>
        /\ b_res.stats.n = Cardinality(BPresent)
        /\ Len(b_records) >= b_window =>
              \A older \in OlderHistories :
                  compute_individual_baselines(older \o LastN(b_records, b_window),
                                               b_key, b_window) = b_res

C6_Witness ==
    /\ b_res.status = "ok"
    /\ Len(b_records) > b_window
    /\ _get_metric_value(b_records[1], b_key) = R(4)
    /\ b_res.stats.n = 2 /\ b_window = 3
    /\ b_res.stats.mean = R(2)

\* C8: mean and std are absent with n = 0 exactly when no record of the
\* window holds a value; with n >= 1 both are present and std >= 0.  A known
\* key and a positive window always return.
C8_NoBaselineIsExplicit ==
    /\ (b_res.status # "not called" /\ KnownMetric(b_key) /\ b_window > 0)
          => b_res.status = "ok"
    /\ b_res.status = "ok" =>
          /\ (b_res.stats.n = 0) <=> (BPresent = {})
          /\ (b_res.stats.mean = None) <=> (BPresent = {})
          /\ (b_res.stats.std = None) <=> (BPresent = {})
          /\ b_res.stats.n >= 1 => RLe(R(0), b_res.stats.std)

C8_Witness ==
    /\ b_res.status = "ok"
    /\ Len(b_records) >= 2
    /\ BPresent = {}
    /\ b_res.stats = BaselineStats(None, None, 0)

\* C9: an unknown metric key fails with the unknown-metric error for every
\* record sequence, the empty one included, and every positive days_window.
C9_UnknownKeyAlwaysFails ==
    (b_res.status # "not called" /\ b_key = UnknownKey /\ b_window > 0)
        => b_res.status = "ValueError: Unknown metric key"

\* ---- z_score
\* C7: absent when the baseline has no mean, no std or n = 0; with std = 0 it
\* is 0 exactly when the value equals the mean and absent otherwise; with
\* std > 0 it is the number z with z * std = value - mean.
C7_ZScoreCases ==
    z_res.status = "ok" =>
        IF z_baseline.mean = None \/ z_baseline.std = None \/ z_baseline.n = 0
        THEN z_res.z = None
        ELSE IF z_baseline.std = R(0)
             THEN /\ (z_res.z = R(0)) <=> (z_value = z_baseline.mean)
                  /\ (z_value # z_baseline.mean) => z_res.z = None
             ELSE /\ z_res.z # None
                  /\ RMul(z_res.z, z_baseline.std) = RSub(z_value, z_baseline.mean)

C7_Witness ==
    /\ z_res.status = "ok"
    /\ z_baseline.std = R(0) /\ z_baseline.n > 0
    /\ z_value # z_baseline.mean
    /\ RLt(RAbs(RSub(z_value, z_baseline.mean)), Norm(1, 100))
    /\ z_res.z = None

\* ---- compute_pareto_attribution
Reason(result) == IF "reason" \in DOMAIN result.meta THEN result.meta.reason ELSE "ranked"

ParetoDone == p_pc = "done"

EnoughHistory == ~(Len(p_records) < p_constants.min_history_days)

GatesPassed == EnoughHistory /\ Len(p_dips.all) > 0

\* The z-scores of a factor's fields on one record, where computable.
RECURSIVE ZsOfFields(_, _)
ZsOfFields(r, fields) ==
    IF fields = <<>> THEN <<>>
    ELSE <<IF r[Head(fields)] = None THEN None
           ELSE z_score(r[Head(fields)], p_baselines[Head(fields)])>>
         \o ZsOfFields(r, Tail(fields))

FieldZs(r, key) == ZsOfFields(r, FactorOf(key).fields)

\* The strongest deviation of a factor on a record: the z of largest |z| > 0,
\* the first listed field on a tie; None when no field deviates.
StrongestZ(r, key) ==
    LET zs == FieldZs(r, key)
        dev == {i \in DOMAIN zs : zs[i] # None /\ zs[i] # R(0)}
    IN  IF dev = {} THEN None
        ELSE zs[CHOOSE i \in dev :
                   \A j \in dev : /\ RLe(RAbs(zs[j]), RAbs(zs[i]))
                                  /\ (RAbs(zs[j]) = RAbs(zs[i]) => i <= j)]

InProtectiveDirection(key, z) ==
    IF key = "exercise" THEN RLe(z, R(0)) ELSE RLe(R(0), z)

\* A harmful-direction deviation at or above the abnormal threshold.
Harmful(r, key) ==
    LET z == StrongestZ(r, key)
    IN  /\ z # None
        /\ ~InProtectiveDirection(key, z)
        /\ RLe(AttributionThresholds.abnormal_abs_z, RAbs(z))

RecordsInWindow(dip) ==
    {i \in 1..Len(p_records) :
        /\ p_records[i].date <= dip.date
        /\ p_records[i].date >= dip.date - p_constants.max_lag_days}

EmptyWith(reason) ==
    /\ p_result.factors_ranked = <<>>
    /\ p_result.dominant_key = NoKey
    /\ Reason(p_result) = reason

\* C3: a factor is recorded as contributing to a dip only through a day of the
\* dip's lag window on which its strongest deviation is in the harmful
\* direction and reaches the abnormal threshold, so a protective deviation
\* never contributes; and when no day of any dip's lag window holds such a
\* deviation, the result is the empty "no_explanatory_signal" result.
C3_ProtectiveNeverContributes ==
    /\ \A key \in FactorKeys :
          \A d \in contributed_to_dip_dates[key] :
              \E k \in 1..Len(p_dips.all) :
                  /\ p_dips.all[k].date = d
                  /\ \E i \in RecordsInWindow(p_dips.all[k]) : Harmful(p_records[i], key)
    /\ (ParetoDone /\ GatesPassed
        /\ \A k \in 1..Len(p_dips.all) : \A i \in RecordsInWindow(p_dips.all[k]) :
               \A key \in FactorKeys : ~Harmful(p_records[i], key))
          => EmptyWith("no_explanatory_signal")

C3_Witness ==
    /\ ParetoDone /\ GatesPassed
    /\ EmptyWith("no_explanatory_signal")
    /\ \E k \in 1..Len(p_dips.all) : \E i \in RecordsInWindow(p_dips.all[k]) :
          /\ p_records[i].date = p_dips.all[k].date
          /\ StrongestZ(p_records[i], "sleep") = R(4)
          /\ StrongestZ(p_records[i], "exercise") = R(-3)

PercentSum == RSum([i \in 1..Len(p_result.factors_ranked) |-> p_result.factors_ranked[i].percent])

PercentsInRange ==
    \A i \in 1..Len(p_result.factors_ranked) :
        /\ RLe(R(0), p_result.factors_ranked[i].percent)
        /\ RLe(p_result.factors_ranked[i].percent, R(100))

PositiveFactors == {key \in FactorKeys : RLt(R(0), raw_scores[key])}

\* C4 as stated: whenever factors_ranked is non-empty, each percent lies in
\* 0..100 and the percents sum to 100, for every max_explanatory_factors >= 1.
C4_PercentsSumTo100 ==
    (ParetoDone /\ p_result.factors_ranked # <<>> /\ p_constants.max_explanatory_factors >= 1)
        => PercentsInRange /\ PercentSum = R(100)

\* C4 amended: each percent lies in 0..100; the percents sum to 100 when no
\* positively scored factor is cut by max_explanatory_factors, and to less
\* than 100 (the shares of the factors kept) when one is.
C4_PercentsSumTo100UnlessTruncated ==
    (ParetoDone /\ p_result.factors_ranked # <<>>) =>
        /\ PercentsInRange
        /\ Cardinality(PositiveFactors) <= p_constants.max_explanatory_factors
              => PercentSum = R(100)
        /\ Cardinality(PositiveFactors) > p_constants.max_explanatory_factors
              => /\ RLt(PercentSum, R(100))
                 /\ Len(p_result.factors_ranked) = p_constants.max_explanatory_factors

C4_Witness ==
    /\ ParetoDone
    /\ Len(p_result.factors_ranked) >= 2
    /\ Cardinality(PositiveFactors) = Len(p_result.factors_ranked)
    /\ PercentSum = R(100)
    /\ \E i, j \in 1..Len(p_result.factors_ranked) :
          p_result.factors_ranked[i].percent # p_result.factors_ranked[j].percent

\* C5: the preconditions are tested in a fixed order.  Too few records gives
\* the empty "insufficient_history" result whether or not dips are supplied;
\* "no_dips" (dip_count 0) is returned exactly when there are enough records
\* and no dip events; in both cases the function returns without entering
\* the attribution loop.
C5_GateOrder ==
    /\ ~GatesPassed => p_pc \in {"idle", "start", "done"}
    /\ ParetoDone =>
          /\ ~EnoughHistory => EmptyWith("insufficient_history")
          /\ (EnoughHistory /\ Len(p_dips.all) = 0)
                => EmptyWith("no_dips") /\ p_result.meta.dip_count = 0
          /\ Reason(p_result) = "no_dips" => EnoughHistory /\ Len(p_dips.all) = 0

C5_Witness ==
    /\ ParetoDone
    /\ ~EnoughHistory /\ Len(p_dips.all) > 0
    /\ EmptyWith("insufficient_history")

\* ---- is_stable_recovery
StabilityGatesPassed ==
    /\ Len(s_records) >= s_assumptions.min_history_days
    /\ s_baseline.mean # None /\ s_baseline.std # None /\ s_baseline.n # 0
    /\ s_baseline.n >= s_assumptions.min_observations

StabilityReturned == s_res # SNotCalled

\* |std / mean| <= 0.08, cross-multiplied: 100 * |std| <= 8 * |mean|.
LowVariation ==
    RLe(RMul(R(100), RAbs(s_baseline.std)), RMul(R(8), RAbs(s_baseline.mean)))

\* C11: past the history and observation gates, stable is true exactly when
\* the variance test passes (|mean| >= 1e-9 and |std/mean| <= 0.08, or
\* |mean| < 1e-9 and std = 0) and dip_count <= 0; so one dip forces
\* stable = FALSE whatever the variance.
C11_StableIffLowVarianceAndNoDips ==
    (StabilityReturned /\ StabilityGatesPassed) =>
        /\ s_res.stable <=>
              /\ \/ (~NearZero(s_baseline.mean) /\ LowVariation)
                 \/ (NearZero(s_baseline.mean) /\ s_baseline.std = R(0))
              /\ s_dip_count <= 0
        /\ s_dip_count >= 1 => ~s_res.stable

C11_Witness ==
    /\ StabilityReturned /\ StabilityGatesPassed
    /\ s_baseline.mean = R(-100) /\ s_baseline.std = R(8)
    /\ s_dip_count = 1
    /\ s_res.meta.stable_by_variance /\ ~s_res.stable

\* ---- compute_pareto_attribution: dominant factor
\* top.percent / 100 >= min_effect_size, cross-multiplied.
TopShareReachesEffectSize ==
    /\ p_result.factors_ranked # <<>>
    /\ RLe(RMul(p_constants.min_effect_size, R(100)), p_result.factors_ranked[1].percent)

\* C12: in every result dominant_key is set exactly when factors_ranked is
\* non-empty and its first percent / 100 reaches min_effect_size; when set it
\* is the key of the first ranked factor.
C12_DominantIffTopShare ==
    ParetoDone =>
        /\ (p_result.dominant_key # NoKey) <=> TopShareReachesEffectSize
        /\ p_result.dominant_key # NoKey
              => p_result.dominant_key = p_result.factors_ranked[1].key

C12_Witness ==
    /\ ParetoDone
    /\ Len(p_result.factors_ranked) >= 2
    /\ ~TopShareReachesEffectSize
    /\ p_result.dominant_key = NoKey

\* ---- build_timeseries
\* |z| of every field of the factor that has a computable z on the record.
EvAbsZs(r, key) ==
    LET fields == FactorOf(key).fields
    IN  {RAbs(z_score(r[fields[i]], e_baselines[fields[i]])) :
            i \in {j \in 1..Len(fields) :
                     /\ fields[j] \in DOMAIN e_baselines
                     /\ fields[j] \in DOMAIN r
                     /\ r[fields[j]] # None
                     /\ z_score(r[fields[j]], e_baselines[fields[j]]) # None}}

\* The flag the claim describes: some computable |z| reaches the threshold.
UnsignedAbnormal(r, key) ==
    \E az \in EvAbsZs(r, key) : RLe(e_thresholds.abnormal_abs_z, az)

AttributorAccepts(r, key) ==
    _is_factor_abnormal(r, FactorOf(key), e_baselines, e_thresholds)[1]

\* The record whose flags the loop locals hold.
EvCurrent == IF e_pc = "AttributeError" THEN e_i ELSE e_i - 1

C14_LargeDayAlwaysReported ==
    DipsDone =>
        /\ \A i \in 1..Len(d_records) :
              IsLargeDay(i) =>
                  \E k \in OutAt(d_records[i].date) : d_out[k].kind = "large"
        /\ \A k \in DOMAIN d_out :
              (d_out[k].kind = "large") <=> RLe(d_out[k].z, d_thresholds.large_dip_z)

\* An isolated large day after a missing day, next to a reported persistent run.
C14_Witness ==
    /\ DipsDone
    /\ d_thresholds.persistent_days = 2
    /\ \E i \in 2..Len(d_records) :
          /\ d_records[i - 1].recovery_value = None
          /\ IsLargeDay(i)
          /\ (i = Len(d_records) \/ ~Qualifies(i + 1))
          /\ \E k \in OutAt(d_records[i].date) : d_out[k].kind = "large"
    /\ \E k \in DOMAIN d_out : d_out[k].kind = "persistent"

PersistentEmitted == SelectSeq(dips, LAMBDA e : e.kind = "persistent")

\* The records of runs of length >= persistent_days that end before record
\* `upto` (exclusive) or with the sequence, in record order.
RunMembersEndedBy(upto) ==
    LET n == Len(d_records)
        Q == {i \in 1..n : Qualifies(i)}
        InEndedRun(i) ==
            \E lo \in 1..i, hi \in i..n :
                /\ \A k \in lo..hi : k \in Q
                /\ (lo = 1 \/ (lo - 1) \notin Q)
                /\ (hi = n \/ (hi + 1) \notin Q)
                /\ hi - lo + 1 >= d_thresholds.persistent_days
                /\ hi < upto
    IN  SortedSeq({i \in Q : InEndedRun(i)})

EmittedAre(members) ==
    /\ Len(PersistentEmitted) = Len(members)
    /\ \A k \in 1..Len(members) :
          /\ PersistentEmitted[k].date = d_records[members[k]].date
          /\ PersistentEmitted[k].z = DZ(members[k])

\* The emissions of the scan: while scanning, exactly the runs that have
\* ended with length >= persistent_days; after the terminal flush, those and
\* a trailing run of that length.
ScanEmitsExactlyLongRuns ==
    /\ (d_pc = "scan" /\ d_i > 1) => EmittedAre(RunMembersEndedBy(d_i - 1))
    /\ (d_pc \in {"dedup", "done"} /\ DipGatesPass(d_records, d_baseline, d_assumptions))
          => EmittedAre(RunMembersEndedBy(Len(d_records) + 1))

BufferEmptyAfterRunEndInLoop ==
    (d_pc = "scan" /\ d_i > 1 /\ ~Qualifies(d_i - 1)) => run = <<>>

BufferEmptyAfterTerminalFlush ==
    (d_pc \in {"dedup", "done"} /\ DipGatesPass(d_records, d_baseline, d_assumptions))
        => run = <<>>

\* C15 as stated: a run is emitted exactly when it ends with length >=
\* persistent_days (on a non-qualifying day, on a missing or unscorable day,
\* or with the sequence), and the run buffer is empty after every run end.
C15_RunBufferAlwaysCleared ==
    /\ ScanEmitsExactlyLongRuns
    /\ BufferEmptyAfterRunEndInLoop
    /\ BufferEmptyAfterTerminalFlush

\* C15 amended: a run is emitted exactly when it ends with length >=
\* persistent_days, in any of the three ways; the buffer is empty after a run
\* end inside the loop, and after the terminal flush it still holds the
\* trailing stretch of qualifying records (it is not read again).
C15_RunEmittedBufferClearedInLoop ==
    /\ ScanEmitsExactlyLongRuns
    /\ BufferEmptyAfterRunEndInLoop
    /\ (d_pc \in {"dedup", "done"} /\ DipGatesPass(d_records, d_baseline, d_assumptions)
        /\ d_records # <<>>) =>
          Len(run) = IF Qualifies(Len(d_records))
                     THEN Len(d_records) - StretchLo(Len(d_records)) + 1
                     ELSE 0

\* A short run ended by a missing day is dropped, a trailing long run is flushed.
C15_Witness ==
    /\ DipsDone
    /\ d_thresholds.persistent_days = 2
    /\ Len(d_records) = 4
    /\ Qualifies(1) /\ d_records[2].recovery_value = None
    /\ Qualifies(3) /\ Qualifies(4)
    /\ Len(PersistentEmitted) = 2
    /\ Len(run) = 2

\* C16: the returned list has strictly increasing dates, for every input.
C16_OutputStrictlyChronological ==
    \A k \in 1..(Len(d_out) - 1) : d_out[k].date < d_out[k + 1].date

\* Events appended out of date order and twice for one date, returned in order.
C16_Witness ==
    /\ DipsDone
    /\ Len(d_out) >= 2
    /\ Len(dips) > Len(d_out)
    /\ \E k \in 1..(Len(dips) - 1) : dips[k].date > dips[k + 1].date

\* ---- compute_pareto_attribution: the attribution loop
\* The harmful, above-threshold days of a factor in the lag window of dip j.
AbnormalDaysFor(j, key) ==
    {i \in RecordsInWindow(p_dips.all[j]) : Harmful(p_records[i], key)}

Contributes(j, key) == AbnormalDaysFor(j, key) # {}

BestStrength(j, key) ==
    LET zs == {RAbs(StrongestZ(p_records[i], key)) : i \in AbnormalDaysFor(j, key)}
    IN  CHOOSE x \in zs : \A y \in zs : RLe(y, x)

WeightOf(j) == IF p_dips.all[j].kind = "large" THEN Norm(5, 4) ELSE R(1)

\* The score a factor has gathered from the first k dips.
ExpectedScore(key, k) ==
    RSum([j \in 1..k |-> IF Contributes(j, key)
                         THEN RMul(WeightOf(j), BestStrength(j, key))
                         ELSE R(0)])

\* C17: after each dip of the attribution loop every factor has contributed
\* at most once per dip: its score is the sum, over the dips seen, of weight
\* (1.25 large, 1.0 otherwise) times the largest |z| among its abnormal days
\* dated in [dip_date - max_lag_days, dip_date]; its occurrences count those
\* dips and their dates are recorded; records outside the window add nothing,
\* and occurrences never exceed the number of dip events.
C17_OneContributionPerDip ==
    /\ p_pc = "attribute" =>
          \A key \in FactorKeys :
              LET seen == {j \in 1..(p_k - 1) : Contributes(j, key)}
              IN  /\ raw_scores[key] = ExpectedScore(key, p_k - 1)
                  /\ occurrences[key] = Cardinality(seen)
                  /\ contributed_to_dip_dates[key] = {p_dips.all[j].date : j \in seen}
    /\ \A key \in FactorKeys : occurrences[key] <= Len(p_dips.all)

\* One large dip on day 2 with a one-day lag: exercise z = 3 on day 1 and
\* z = 2 on day 2 count once, with the larger strength.
C17_Witness ==
    /\ p_pc = "attribute" /\ p_k = 2
    /\ Len(p_dips.all) = 1 /\ p_dips.all[1].kind = "large" /\ p_dips.all[1].date = 2
    /\ p_constants.max_lag_days = 1
    /\ StrongestZ(p_records[1], "exercise") = R(3)
    /\ StrongestZ(p_records[2], "exercise") = R(2)
    /\ raw_scores["exercise"] = Norm(15, 4)
    /\ occurrences["exercise"] = 1
    /\ contributed_to_dip_dates["exercise"] = {2}

\* ---- compute_pareto_attribution: the noise penalty
TotalAbnormal(key) == Cardinality({i \in 1..Len(p_records) : Harmful(p_records[i], key)})

InContext(key) ==
    Cardinality({i \in 1..Len(p_records) :
        /\ Harmful(p_records[i], key)
        /\ \E j \in 1..Len(p_dips.all) : i \in RecordsInWindow(p_dips.all[j])})

NoiseRatio(key) == Norm(TotalAbnormal(key) - InContext(key), TotalAbnormal(key))

ExpectedPenalty(key) ==
    LET total == TotalAbnormal(key)
        ratio == Norm(total - InContext(key), total)
    IN  IF total = 0 \/ RLe(ratio, p_constants.max_noise_ratio)
        THEN R(1)
        ELSE LET q == RDiv(RSub(ratio, p_constants.max_noise_ratio),
                           RSub(R(1), p_constants.max_noise_ratio))
             IN  RSub(R(1), IF RLe(R(1), q) THEN R(1) ELSE q)

AfterNoisePenalty ==
    \/ p_pc = "consistency"
    \/ (ParetoDone /\ Reason(p_result) = "all_penalized_as_noise")

\* C18: after the noise step every score is the attribution score times the
\* penalty computed over every record: 1 for a factor with no abnormal day or
\* with noise_ratio <= max_noise_ratio, and
\* 1 - min(1, (noise_ratio - max_noise_ratio)/(1 - max_noise_ratio)) otherwise;
\* the result is never above the attribution score and never negative.
C18_NoisePenalty ==
    AfterNoisePenalty =>
        \A key \in FactorKeys :
            LET before == ExpectedScore(key, Len(p_dips.all))
            IN  /\ raw_scores[key] = RMul(before, ExpectedPenalty(key))
                /\ RLe(raw_scores[key], before)
                /\ RLe(R(0), raw_scores[key])

\* A factor abnormal on a day outside every dip's lag window: its score is cut,
\* not zeroed.
C18_Witness ==
    /\ p_pc = "consistency"
    /\ \E key \in FactorKeys :
          /\ TotalAbnormal(key) = 2 /\ InContext(key) = 1
          /\ RLt(p_constants.max_noise_ratio, NoiseRatio(key))
          /\ RLt(R(0), raw_scores[key])
          /\ RLt(raw_scores[key], ExpectedScore(key, Len(p_dips.all)))
    /\ \E key \in FactorKeys :
          /\ TotalAbnormal(key) > 0
          /\ raw_scores[key] = ExpectedScore(key, Len(p_dips.all))
          /\ RLt(R(0), raw_scores[key])

\* ---- compute_pareto_attribution: consistency
DipDates == {p_dips.all[j].date : j \in 1..Len(p_dips.all)}

\* The first dates of the non-overlapping windows of w calendar days, each
\* anchored at the first dip date not yet covered.
RECURSIVE WindowAnchors(_, _)
WindowAnchors(dates, w) ==
    IF dates = {} THEN {}
    ELSE LET a == CHOOSE d \in dates : \A e \in dates : d <= e
         IN  {a} \cup WindowAnchors({d \in dates : d > a + w - 1}, w)

\* The windows in which the factor contributed to some dip.
WindowsHit(key) ==
    LET w == p_constants.baseline_days_window
    IN  {a \in WindowAnchors(DipDates, w) :
            \E j \in 1..Len(p_dips.all) :
                /\ p_dips.all[j].date >= a /\ p_dips.all[j].date <= a + w - 1
                /\ Contributes(j, key)}

MeetsConsistency(key) ==
    Cardinality(WindowsHit(key)) >= p_constants.min_consistent_windows

ConsistentSet == {key \in FactorKeys : MeetsConsistency(key)}

ScoreAfterConsistency(key, met) ==
    LET s == RMul(ExpectedScore(key, Len(p_dips.all)), ExpectedPenalty(key))
    IN  IF key \in met THEN s ELSE RMul(s, Norm(1, 2))

RankedKeys == {p_result.factors_ranked[i].key : i \in 1..Len(p_result.factors_ranked)}

AfterConsistency == p_pc = "rank" \/ (ParetoDone /\ Reason(p_result) = "ranked")

\* The score rule and the consistent set, without the claim on ranking. The
\* scores are compared when the step has just run; ranking leaves them alone.
ConsistencyIsSoftPenalty ==
    AfterConsistency =>
        LET met == ConsistentSet
        IN  /\ consistent_ok = met
            /\ p_pc = "rank" =>
                  \A key \in FactorKeys : raw_scores[key] = ScoreAfterConsistency(key, met)
            /\ ParetoDone =>
                  /\ {p_result.meta.consistent_factors[i] :
                         i \in 1..Len(p_result.meta.consistent_factors)} = met
                  /\ Len(p_result.meta.consistent_factors) = Cardinality(met)

\* C19 as stated: a factor below min_consistent_windows has its score halved
\* and is still ranked whenever its score is positive; a factor meeting the
\* count keeps its score and is listed in meta's consistent factors.
C19_InconsistentStillRanked ==
    /\ ConsistencyIsSoftPenalty
    /\ (ParetoDone /\ Reason(p_result) = "ranked") =>
          \A key \in FactorKeys \ consistent_ok :
              RLt(R(0), raw_scores[key]) => key \in RankedKeys

\* C19 amended: the same, with the halved factor ranked whenever its score is
\* positive and fewer than max_explanatory_factors factors are placed before it.
C19_InconsistentRankedUnlessCut ==
    /\ ConsistencyIsSoftPenalty
    /\ (ParetoDone /\ Reason(p_result) = "ranked") =>
          \A key \in FactorKeys \ consistent_ok :
              RLt(R(0), raw_scores[key]) =>
                  \/ key \in RankedKeys
                  \/ /\ Len(p_result.factors_ranked) = p_constants.max_explanatory_factors
                     /\ \A i \in 1..Len(p_result.factors_ranked) :
                           RLe(raw_scores[key], p_result.factors_ranked[i].raw_score)

\* Two windows, min_consistent_windows = 2: one factor met in both, one halved
\* and ranked.
C19_Witness ==
    /\ ParetoDone /\ Reason(p_result) = "ranked"
    /\ Cardinality(WindowAnchors(DipDates, p_constants.baseline_days_window)) = 2
    /\ \E key \in RankedKeys : key \in consistent_ok
    /\ \E key \in RankedKeys :
          /\ key \notin consistent_ok
          /\ Cardinality(WindowsHit(key)) = 1
          /\ raw_scores[key] = RMul(ExpectedScore(key, Len(p_dips.all)), Norm(1, 2))

\* ---- compute_pareto_attribution: ranking
RankedScoresNonIncreasing ==
    \A i, j \in 1..Len(p_result.factors_ranked) :
        i < j => RLe(p_result.factors_ranked[j].raw_score, p_result.factors_ranked[i].raw_score)

RankedKeysUnique ==
    \A i, j \in 1..Len(p_result.factors_ranked) :
        i # j => p_result.factors_ranked[i].key # p_result.factors_ranked[j].key

RankedScoresPositive ==
    \A i \in 1..Len(p_result.factors_ranked) :
        /\ p_result.factors_ranked[i].key \in FactorKeys
        /\ RLt(R(0), p_result.factors_ranked[i].raw_score)
        /\ Reason(p_result) = "ranked" =>
              p_result.factors_ranked[i].raw_score = raw_scores[p_result.factors_ranked[i].key]

DroppedAreLowest ==
    Reason(p_result) = "ranked" =>
        /\ Len(p_result.factors_ranked) =
              IF Cardinality(PositiveFactors) < p_constants.max_explanatory_factors
              THEN Cardinality(PositiveFactors) ELSE p_constants.max_explanatory_factors
        /\ \A key \in PositiveFactors \ RankedKeys :
              \A i \in 1..Len(p_result.factors_ranked) :
                  RLe(raw_scores[key], p_result.factors_ranked[i].raw_score)

\* C20: in every result factors_ranked is ordered by non-increasing raw_score,
\* holds each factor key at most once, holds only factors with raw_score > 0,
\* and has at most max_explanatory_factors entries; when more factors have
\* positive scores than the cap allows, the dropped ones have the lowest scores.
C20_RankedOrderAndCap ==
    ParetoDone =>
        /\ RankedScoresNonIncreasing
        /\ RankedKeysUnique
        /\ RankedScoresPositive
        /\ Len(p_result.factors_ranked) <= p_constants.max_explanatory_factors
        /\ DroppedAreLowest

\* Three positive factors with different scores under a cap of 2: the ranked
\* order differs from the declaration order and the lowest is dropped.
C20_Witness ==
    /\ ParetoDone /\ Reason(p_result) = "ranked"
    /\ Cardinality(PositiveFactors) > p_constants.max_explanatory_factors
    /\ Len(p_result.factors_ranked) = 2
    /\ RLt(p_result.factors_ranked[2].raw_score, p_result.factors_ranked[1].raw_score)
    /\ p_result.factors_ranked[1].key # DEFAULT_DRIVERS[1].key
    /\ \E key \in PositiveFactors \ RankedKeys :
          RLt(raw_scores[key], p_result.factors_ranked[2].raw_score)

\* ---- is_stable_recovery: failed preconditions
NoRecoveryBaseline ==
    s_baseline.mean = None \/ s_baseline.std = None \/ s_baseline.n = 0

\* C21: a failed precondition is answered with stable = FALSE and a reason:
\* "insufficient_history" with fewer than min_history_days records, else
\* "missing_recovery_baseline" without mean/std or with n = 0, else
\* "insufficient_recovery_observations" with n < min_observations, whatever
\* dip_count is; with all three passed the result carries no reason.
C21_StabilityGateReasons ==
    StabilityReturned =>
        IF Len(s_records) < s_assumptions.min_history_days
        THEN s_res = StabilityResult(FALSE, [reason |-> "insufficient_history",
                                             history_days |-> Len(s_records)])
        ELSE IF NoRecoveryBaseline
        THEN s_res = StabilityResult(FALSE, [reason |-> "missing_recovery_baseline"])
        ELSE IF s_baseline.n < s_assumptions.min_observations
        THEN s_res = StabilityResult(FALSE,
                         [reason |-> "insufficient_recovery_observations",
                          n |-> s_baseline.n])
        ELSE "reason" \notin DOMAIN s_res.meta

\* A baseline without mean and with too few observations, enough history and
\* no dip: the missing baseline is reported, not the observation count.
C21_Witness ==
    /\ StabilityReturned
    /\ Len(s_records) >= s_assumptions.min_history_days
    /\ s_baseline.mean = None /\ s_baseline.n = 1 /\ s_assumptions.min_observations = 5
    /\ s_dip_count = 0
    /\ s_res.meta.reason = "missing_recovery_baseline"
    /\ ~s_res.stable

\* ---- compute_pareto_attribution: meta
MetaKeys == DOMAIN p_result.meta

DiagnosticKeys ==
    {"dip_count", "large_dip_count", "persistent_dip_count", "max_lag_days",
     "baseline_days_window", "consistent_factors"}

\* C24 as stated: the meta of every returned result, the reason-coded empty
\* ones included, carries the dip counts by kind, the lag and window
\* parameters and the consistent factors.
C24_MetaAlwaysCarriesDiagnostics ==
    ParetoDone => DiagnosticKeys \subseteq MetaKeys

\* C24 amended: only the ranked result carries them all (with the abnormal
\* threshold); insufficient_history carries the reason and history_days,
\* no_dips the reason and dip_count = 0, no_explanatory_signal and
\* all_penalized_as_noise the reason, dip_count and max_lag_days.
C24_MetaByOutcome ==
    ParetoDone =>
        CASE Reason(p_result) = "ranked" ->
                /\ MetaKeys = DiagnosticKeys \cup {"abnormal_abs_z"}
                /\ p_result.meta.dip_count = Len(p_dips.all)
                /\ p_result.meta.large_dip_count = Len(p_dips.large)
                /\ p_result.meta.persistent_dip_count = Len(p_dips.persistent)
                /\ p_result.meta.max_lag_days = p_constants.max_lag_days
                /\ p_result.meta.baseline_days_window = p_constants.baseline_days_window
          [] Reason(p_result) = "insufficient_history" ->
                /\ MetaKeys = {"reason", "history_days"}
                /\ p_result.meta.history_days = Len(p_records)
          [] Reason(p_result) = "no_dips" ->
                /\ MetaKeys = {"reason", "dip_count"}
                /\ p_result.meta.dip_count = 0
          [] Reason(p_result) \in {"no_explanatory_signal", "all_penalized_as_noise"} ->
                /\ MetaKeys = {"reason", "dip_count", "max_lag_days"}
                /\ p_result.meta.dip_count = Len(p_dips.all)
                /\ p_result.meta.max_lag_days = p_constants.max_lag_days
          [] OTHER -> FALSE

\* A large dip that no factor explains: the result does not say how many of
\* the dips were large.
C24_Witness ==
    /\ ParetoDone
    /\ Reason(p_result) = "no_explanatory_signal"
    /\ Len(p_dips.large) = 1 /\ Len(p_dips.persistent) = 1
    /\ MetaKeys = {"reason", "dip_count", "max_lag_days"}
    /\ p_result.meta.dip_count = 2

\* ---- compute_pareto_attribution: the re-check after the noise penalty
\* C26: with max_noise_ratio >= 0, a factor that scored in the dip loop has an
\* abnormal day inside the dip-context dates, a noise ratio below 1 and a
\* positive score after the noise penalty, so the total stays positive and
\* "all_penalized_as_noise" is never returned.
C26_AllPenalizedUnreachable ==
    /\ ParetoDone => Reason(p_result) # "all_penalized_as_noise"
    /\ (p_pc = "consistency" /\ RLe(R(0), p_constants.max_noise_ratio)) =>
          /\ \A key \in FactorKeys :
                occurrences[key] > 0 =>
                    /\ InContext(key) >= 1
                    /\ InContext(key) <= TotalAbnormal(key)
                    /\ RLt(R(0), raw_scores[key])
          /\ \E key \in FactorKeys : occurrences[key] > 0
          /\ RLt(R(0), SumScores(raw_scores))

\* The only scoring factor has more abnormal days outside the dip context
\* than the limit allows, and keeps a positive score.
C26_Witness ==
    /\ p_pc = "consistency"
    /\ RLt(p_constants.max_noise_ratio, R(1))
    /\ Cardinality({key \in FactorKeys : occurrences[key] > 0}) = 1
    /\ \E key \in FactorKeys :
          /\ occurrences[key] > 0
          /\ InContext(key) = 1 /\ TotalAbnormal(key) = 2
          /\ RLt(raw_scores[key], ExpectedScore(key, Len(p_dips.all)))
          /\ SumScores(raw_scores) = raw_scores[key]
          /\ RLt(R(0), raw_scores[key])

\* ---- detect_recovery_dips: a baseline without variation
FlatBaseline ==
    /\ d_baseline.mean # None /\ d_baseline.std = R(0) /\ d_baseline.n # 0
    /\ RLt(d_thresholds.large_dip_z, R(0))
    /\ RLt(d_thresholds.persistent_dip_z, R(0))

\* C29: with std = 0 and both dip thresholds negative every day's z is 0 or
\* absent, no event is ever built and the returned list is empty, whatever
\* the records are.
C29_FlatBaselineNoDips ==
    FlatBaseline =>
        /\ \A i \in 1..Len(per_day) : per_day[i] \in {None, R(0)}
        /\ dips = <<>> /\ run = <<>> /\ d_out = <<>>

\* Gates passed, one-day runs allowed, a value 13 below the mean and a value
\* at the mean: nothing is returned.
C29_Witness ==
    /\ d_pc = "done" /\ FlatBaseline
    /\ DipGatesPass(d_records, d_baseline, d_assumptions)
    /\ d_thresholds.persistent_days = 1
    /\ \E i, j \in 1..Len(d_records) :
          /\ d_records[i].recovery_value = R(87) /\ per_day[i] = None
          /\ d_records[j].recovery_value = R(100) /\ per_day[j] = R(0)
    /\ d_out = <<>>

\* ---- _is_factor_abnormal: a factor with several fields
\* The verdict worked out from the strongest field alone.
VerdictOfStrongest(r, key) ==
    LET z == StrongestZ(r, key)
    IN  IF z = None \/ InProtectiveDirection(key, z) THEN <<FALSE, R(0)>>
        ELSE <<RLe(AttributionThresholds.abnormal_abs_z, RAbs(z)), RAbs(z)>>

\* Some field of the factor alone would reach the threshold in the harmful
\* direction, while the strongest field points the other way.
OutvotedHarmfulField(r, key) ==
    LET zs == FieldZs(r, key)
    IN  /\ \E i \in DOMAIN zs :
              /\ zs[i] # None
              /\ ~InProtectiveDirection(key, zs[i])
              /\ RLe(AttributionThresholds.abnormal_abs_z, RAbs(zs[i]))
        /\ StrongestZ(r, key) # None
        /\ InProtectiveDirection(key, StrongestZ(r, key))

\* C30: the verdict of _is_factor_abnormal for a day is the verdict on the
\* field of largest |z| alone (the first listed on a tie); a day with a sleep
\* field at z <= -abnormal_abs_z is not abnormal for sleep when the other
\* sleep field has a larger |z| with z > 0, and such a day on a dip date
\* (lag 0) gives sleep no occurrence.
C30_StrongestFieldDecides ==
    /\ ParetoDone =>
        \A i \in 1..Len(p_records) : \A key \in FactorKeys :
          /\ _is_factor_abnormal(p_records[i], FactorOf(key), p_baselines,
                                 AttributionThresholds)
                = VerdictOfStrongest(p_records[i], key)
          /\ OutvotedHarmfulField(p_records[i], key) =>
                ~_is_factor_abnormal(p_records[i], FactorOf(key), p_baselines,
                                     AttributionThresholds)[1]
    /\ (ParetoDone /\ p_constants.max_lag_days = 0) =>
          \A i \in 1..Len(p_records) : \A key \in FactorKeys :
              OutvotedHarmfulField(p_records[i], key) =>
                  p_records[i].date \notin contributed_to_dip_dates[key]

\* Sleep duration at z = -3/2 and sleep consistency at z = +2 on the day of
\* the only dip: sleep has no occurrence and no score.
C30_Witness ==
    /\ ParetoDone /\ GatesPassed
    /\ p_constants.max_lag_days = 0
    /\ Len(p_dips.all) = 1
    /\ \E i \in 1..Len(p_records) :
          /\ p_records[i].date = p_dips.all[1].date
          /\ FieldZs(p_records[i], "sleep") = <<Norm(-3, 2), R(2)>>
    /\ occurrences["sleep"] = 0
    /\ raw_scores["sleep"] = R(0)

\* ------------------------------------------------------------ insights.py
\* Insight(...) with the dataclass defaults for the fields a call leaves out.
Insight(title, body, primary_factor, primary_percent, current_state, stability, confidence, resources) ==
    [title |-> title, body |-> body, primary_factor |-> primary_factor,
     primary_percent |-> primary_percent, current_state |-> current_state,
     stability |-> stability, confidence |-> confidence, resources |-> resources]

\* dict.get(key): the value, or None when the key is missing.
DictGet(d, k) == IF k \in DOMAIN d THEN d[k] ELSE None

_band_from_z(z) ==
    IF z = None THEN "unknown"
    ELSE IF RLe(z, Norm(-3, 4)) THEN "below_normal"
    ELSE IF RLe(Norm(3, 4), z) THEN "above_normal"
    ELSE "within_normal"

_stability_from_std(b) ==
    IF b.mean = None \/ b.std = None \/ b.n = 0 THEN "unknown"
    ELSE IF NearZero(b.mean)
         THEN (IF RLt(R(0), b.std) THEN "volatile" ELSE "stable")
    ELSE IF RLe(Norm(15, 100), RAbs(RDiv(b.std, b.mean))) THEN "volatile"
    ELSE "stable"

_factor_fields(factor_key) ==
    IF factor_key \in FactorKeys THEN FactorOf(factor_key).fields ELSE <<>>

\* The z of one field against its baseline as build_insight computes it
\* inline: None when anything is missing or when std = 0 and the value is off
\* the mean.
InsightFieldZ(f, baselines, latest_values) ==
    LET b == DictGet(baselines, f)
        v == DictGet(latest_values, f)
    IN  IF b = None \/ v = None THEN None
        ELSE IF b.mean = None \/ b.std = None \/ b.n = 0 THEN None
        ELSE IF b.std = R(0) THEN (IF v = b.mean THEN R(0) ELSE None)
        ELSE RDiv(RSub(v, b.mean), b.std)

RECURSIVE InsightBestZ(_, _, _, _, _)
InsightBestZ(i, best_z, fields, baselines, latest_values) ==
    IF i > Len(fields) THEN best_z
    ELSE LET z == InsightFieldZ(fields[i], baselines, latest_values)
         IN  InsightBestZ(i + 1,
                 IF z # None /\ (best_z = None \/ RLt(RAbs(best_z), RAbs(z)))
                 THEN z ELSE best_z,
                 fields, baselines, latest_values)

_factor_state_and_stability(factor_key, baselines, latest_values) ==
    LET fields == _factor_fields(factor_key)
        stabilities == {_stability_from_std(baselines[fields[i]]) :
                           i \in {j \in 1..Len(fields) :
                                     DictGet(baselines, fields[j]) # None}}
    IN  IF fields = <<>> THEN <<"unknown", "unknown">>
        ELSE <<_band_from_z(InsightBestZ(1, None, fields, baselines, latest_values)),
               IF "volatile" \in stabilities THEN "volatile"
               ELSE IF "stable" \in stabilities THEN "stable"
               ELSE "unknown">>

Max(a, b) == IF a >= b THEN a ELSE b

_confidence_label_IgnoresDominant(pareto, dips_result, assumptions) ==
    IF Len(dips_result.all) >= Max(assumptions.min_observations, 10)
       /\ Len(dips_result.large) >= 2 THEN "high"
    ELSE IF Len(dips_result.all) >= 5 THEN "medium"
    ELSE "low"

_confidence_label(pareto, dips_result, assumptions) ==
    LET dip_count == Len(dips_result.all)
        large_count == Len(dips_result.large)
    IN  IF pareto.dominant_key = NoKey THEN "low"
        ELSE IF dip_count >= Max(assumptions.min_observations, 10) /\ large_count >= 2
             THEN "high"
        ELSE IF dip_count >= 5 THEN "medium"
        ELSE "low"

\* str.capitalize() on the factor keys.
Capitalize(key) ==
    CASE key = "sleep" -> "Sleep"
      [] key = "exercise" -> "Exercise"
      [] key = "nutrition" -> "Nutrition"
      [] OTHER -> key

\* f"Primary recovery-associated factor: {primary_factor.capitalize()}"
FactorTitle(key) ==
    CASE key = "sleep" -> "Primary recovery-associated factor: Sleep"
      [] key = "exercise" -> "Primary recovery-associated factor: Exercise"
      [] key = "nutrition" -> "Primary recovery-associated factor: Nutrition"
      [] OTHER -> "Primary recovery-associated factor: "

\* format(x, ".0f") of a non-negative number: the nearest integer, ties to
\* the even one.
Format0f(x) ==
    LET q == x[1] \div x[2]
        r2 == 2 * (x[1] % x[2])
    IN  IF r2 < x[2] THEN q
        ELSE IF r2 > x[2] THEN q + 1
        ELSE IF q % 2 = 0 THEN q ELSE q + 1

StableBody ==
    <<"Recovery has been relatively stable over the selected window. ",
      "No dominant recovery factor was detected because there are few meaningful recovery dips to explain.">>

NoFactorBody(reason) ==
    IF reason = "insufficient_history"
    THEN <<"Not enough history to evaluate recovery factors yet. Add more days of data to improve signal.">>
    ELSE IF reason = "no_explanatory_signal"
    THEN <<"Recovery dips were detected, but no behavior factor showed a consistent association within the lag window. ",
           "This can happen when inputs are missing or recovery changes are driven by untracked factors.">>
    ELSE <<"No dominant recovery factor was detected in this window. ",
           "This may be due to sparse data, low variability, or multiple small factors contributing at once.">>

\* The sentences of the factor narrative, each with the values formatted into
\* it.
FactorBody(primary_factor, primary_percent, runner_up, state, stability) ==
    <<<<"explains the largest share", Capitalize(primary_factor),
        Format0f(primary_percent)>>>>
    \o (IF runner_up # NoKey
        THEN <<<<"more sensitive to", primary_factor, runner_up>>>> ELSE <<>>)
    \o <<IF state # "unknown"
         THEN <<"Current state", primary_factor,
                CASE state = "below_normal" -> "below your normal range"
                  [] state = "within_normal" -> "within your normal range"
                  [] state = "above_normal" -> "above your normal range"
                  [] OTHER -> "relative to your normal range">>
         ELSE <<"Current state", primary_factor, "unavailable or missing for recent days">>>>
    \o <<IF stability # "unknown"
         THEN <<"Stability", primary_factor,
                IF stability = "volatile" THEN "highly variable" ELSE "consistent">>
         ELSE <<"Stability", primary_factor, "not enough data">>>>

\* An absent primary_factor is NoKey, as an absent dominant_key is.
StableInsight ==
    Insight("Recovery is stable", StableBody, NoKey, None, None, None, "high", None)

NoFactorInsight(pareto) ==
    Insight("No dominant recovery factor detected",
            NoFactorBody(IF "reason" \in DOMAIN pareto.meta
                         THEN pareto.meta.reason ELSE NoKey),
            NoKey, None, None, None, "low", None)

FactorInsight(pareto, dips_result, baselines, latest_values, assumptions, resources_by_factor) ==
    LET dominant == pareto.dominant_key
        top == pareto.factors_ranked[1]
        primary_factor == IF dominant # NoKey THEN dominant ELSE top.key
        primary_percent == top.percent
        ss == _factor_state_and_stability(primary_factor, baselines, latest_values)
        runner_up == IF Len(pareto.factors_ranked) > 1
                     THEN pareto.factors_ranked[2].key ELSE NoKey
    IN  Insight(FactorTitle(primary_factor),
                FactorBody(primary_factor, primary_percent, runner_up, ss[1], ss[2]),
                primary_factor, primary_percent,
                [k \in {primary_factor} |-> ss[1]],
                [k \in {primary_factor} |-> ss[2]],
                _confidence_label(pareto, dips_result, assumptions),
                IF resources_by_factor # None
                   /\ primary_factor \in DOMAIN resources_by_factor
                THEN [k \in {primary_factor} |-> resources_by_factor[primary_factor]]
                ELSE None)

build_insight_NoDipsFirst(pareto, dips_result, recovery_stable, baselines, latest_values, assumptions, resources_by_factor) ==
    IF Len(dips_result.all) = 0 \/ pareto.factors_ranked = <<>>
    THEN NoFactorInsight(pareto)
    ELSE IF recovery_stable THEN StableInsight
    ELSE FactorInsight(pareto, dips_result, baselines, latest_values, assumptions,
                       resources_by_factor)

build_insight(pareto, dips_result, recovery_stable, baselines, latest_values, assumptions, resources_by_factor) ==
    IF recovery_stable THEN StableInsight
    ELSE IF Len(dips_result.all) = 0 \/ pareto.factors_ranked = <<>>
    THEN NoFactorInsight(pareto)
    ELSE FactorInsight(pareto, dips_result, baselines, latest_values, assumptions,
                       resources_by_factor)


\* ------------------------------------------------ build_insight: inputs, call
MaxInsightDips == 12

MaxInsightLarge == 3

\* n dip events on dates 1..n, the first nl of them large.
InsightDips(n, nl) ==
    LET all == [d \in 1..n |-> MkDip(d, IF d <= nl THEN "large" ELSE "persistent")]
    IN  [large |-> OfKind(all, "large"), persistent |-> OfKind(all, "persistent"),
         all |-> all]

RankedMeta(n) ==
    [dip_count |-> n, large_dip_count |-> 0, persistent_dip_count |-> n,
     max_lag_days |-> 3, baseline_days_window |-> 14,
     abnormal_abs_z |-> AttributionThresholds.abnormal_abs_z,
     consistent_factors |-> <<>>]

\* Attribution results of every outcome: the three reason-coded empty ones,
\* and ranked ones with and without a dominant key, with one or two factors.
InsightParetos ==
    { ParetoResult(<<>>, NoKey, [reason |-> "insufficient_history", history_days |-> 3]),
      ParetoResult(<<>>, NoKey, [reason |-> "no_dips", dip_count |-> 0]),
      ParetoResult(<<>>, NoKey, [reason |-> "no_explanatory_signal", dip_count |-> 2,
                                 max_lag_days |-> 3]),
      ParetoResult(<<FactorAttribution("sleep", Norm(125, 2), R(5), 4, Norm(3, 2)),
                     FactorAttribution("exercise", Norm(75, 2), R(3), 2, Norm(3, 2))>>,
                   "sleep", RankedMeta(6)),
      ParetoResult(<<FactorAttribution("exercise", R(100), R(3), 2, Norm(3, 2))>>,
                   "exercise", RankedMeta(2)),
      ParetoResult(<<FactorAttribution("nutrition", R(55), R(11), 4, R(2)),
                     FactorAttribution("sleep", R(45), R(9), 4, R(2))>>,
                   NoKey, RankedMeta(5)) }

InsightBaselines ==
    { <<>>,
      [recovery_value |-> BaselineStats(R(60), R(10), 10),
       sleep_duration |-> BaselineStats(R(8), R(1), 10),
       sleep_consistency |-> BaselineStats(R(0), R(0), 10),
       excercise_data_point |-> BaselineStats(R(100), R(20), 10),
       nutrition_data_point |-> BaselineStats(None, None, 0)] }

\* The first has the keys extract_latest_values returns, the second the field
\* names of DEFAULT_DRIVERS.
InsightLatest ==
    { [sleep_duration |-> R(6), sleep_consistency |-> None, exercise_load |-> R(150),
       nutrition_value |-> R(2000), recovery_value |-> R(50)],
      [sleep_duration |-> R(8), sleep_consistency |-> R(0),
       excercise_data_point |-> R(150), nutrition_data_point |-> R(1)] }

InitInsight ==
    /\ i_pareto \in InsightParetos
    /\ \E n \in 0..MaxInsightDips :
          \E nl \in 0..(IF n < MaxInsightLarge THEN n ELSE MaxInsightLarge) :
              i_dips = InsightDips(n, nl)
    /\ i_stable \in BOOLEAN
    /\ i_baselines \in InsightBaselines
    /\ i_latest \in InsightLatest
    /\ i_assumptions \in {[min_history_days |-> 30, min_observations |-> m] :
                             m \in {5, 10, 12}}
    /\ i_resources \in {None, [sleep |-> <<"sleep hygiene">>]}
    /\ i_res = INotCalled
    /\ BIdle /\ ZIdle /\ DIdle /\ PIdle /\ SIdle /\ EIdle /\ LIdle

InsightCall ==
    /\ i_res = INotCalled
    /\ i_res' = build_insight(i_pareto, i_dips, i_stable, i_baselines, i_latest,
                              i_assumptions, i_resources)
    /\ UNCHANGED <<iInputs, bVars, zVars, dVars, pVars, sVars, eVars, lVars>>

NextInsight == InsightCall

SpecInsight == InitInsight /\ [][NextInsight]_vars

\* ---------------------------------------------------- insight properties
InsightDone == i_res # INotCalled

NoFactorClaims(res) ==
    /\ res.primary_factor = NoKey /\ res.primary_percent = None
    /\ res.current_state = None /\ res.stability = None

\* C22: whenever recovery_stable is true, build_insight returns the fixed
\* "Recovery is stable" insight with confidence "high" and with
\* primary_factor, primary_percent, current_state and stability absent,
\* whatever the attribution result and the dip lists hold.
C22_StableBranchFirst ==
    (InsightDone /\ i_stable) =>
        /\ i_res.title = "Recovery is stable"
        /\ i_res.body = StableBody
        /\ i_res.confidence = "high"
        /\ NoFactorClaims(i_res)
        /\ i_res.resources = None

\* A stable verdict passed together with no dips, and one passed with ten
\* dips and a ranked attribution: the answer is the same fixed insight.
C22_Witness ==
    /\ InsightDone /\ i_stable
    /\ Len(i_dips.all) >= 10 /\ i_pareto.dominant_key = "sleep"
    /\ i_res.title = "Recovery is stable" /\ i_res.confidence = "high"
    /\ i_res.primary_factor = NoKey

InFactorBranch ==
    /\ InsightDone /\ ~i_stable
    /\ Len(i_dips.all) > 0 /\ i_pareto.factors_ranked # <<>>

ExpectedConfidence ==
    IF i_pareto.dominant_key = NoKey THEN "low"
    ELSE IF /\ Len(i_dips.all) >= 10
            /\ Len(i_dips.all) >= i_assumptions.min_observations
            /\ Len(i_dips.large) >= 2 THEN "high"
    ELSE IF Len(i_dips.all) >= 5 THEN "medium"
    ELSE "low"

\* C23: in the factor-narrative branch the confidence is "low" whenever
\* dominant_key is absent, whatever the dip counts; otherwise "high" if
\* dip_count >= max(min_observations, 10) and large_dip_count >= 2, else
\* "medium" if dip_count >= 5, else "low".
C23_ConfidenceLadder ==
    InFactorBranch =>
        /\ i_res.confidence = ExpectedConfidence
        /\ i_res.primary_factor = (IF i_pareto.dominant_key # NoKey
                                   THEN i_pareto.dominant_key
                                   ELSE i_pareto.factors_ranked[1].key)

\* Twelve dips, three of them large, and a ranked attribution without a
\* dominant key: the narrative names the top factor and the confidence is low.
C23_Witness ==
    /\ InFactorBranch
    /\ i_pareto.dominant_key = NoKey
    /\ Len(i_dips.all) >= 12 /\ Len(i_dips.large) >= 2
    /\ i_res.primary_factor = "nutrition"
    /\ i_res.confidence = "low"


\* ------------------------------------------------------------ pipeline.py
\* by_date[d.date] = d for each d in turn: a later event replaces an earlier
\* one of the same date.
RECURSIVE AdapterFold(_, _)
AdapterFold(by_date, events) ==
    IF events = <<>> THEN by_date
    ELSE AdapterFold((Head(events).date :> Head(events)) @@ by_date, Tail(events))

\* The adapter run_pipeline applies to the list detect_recovery_dips returns:
\* large and persistent are the events of that kind in the list, all is the
\* list again keyed by date, persistent first and large over it.
DipsAdapter(dips_all) ==
    LET large == OfKind(dips_all, "large")
        persistent == OfKind(dips_all, "persistent")
        by_date == AdapterFold(AdapterFold(<<>>, persistent), large)
        dates == SortedSeq(DOMAIN by_date)
    IN  [large |-> large, persistent |-> persistent,
         all |-> [k \in 1..Len(dates) |-> by_date[dates[k]]]]

RunDayDates == {d_records[i].date : i \in {j \in 1..Len(d_records) : InQualifyingRun(j)}}

\* C25: in the DipDetectionResult the pipeline builds from the returned list,
\* `persistent` holds every day of every qualifying run, the days that are
\* also large dips included, so that its length counts all run days.
C25_PersistentHoldsEveryRunDay ==
    DipsDone =>
        LET res == DipsAdapter(d_out)
        IN  /\ {res.persistent[k].date : k \in DOMAIN res.persistent} = RunDayDates
            /\ Len(res.persistent) = Cardinality(RunDayDates)


\* ------------------------------------------------ run_pipeline: inputs, steps
MaxStore == 3

\* sorted(records, key=lambda r: r.date) on records of distinct dates.
SortByDate(records) ==
    LET dates == SortedSeq({records[i].date : i \in DOMAIN records})
    IN  [k \in 1..Len(dates) |->
            records[CHOOSE i \in DOMAIN records : records[i].date = dates[k]]]

\* The parameters compute_cumulative_baselines declares, and those without a
\* default.
CumulativeBaselinesParams == {"records", "days_window", "metric_keys"}

CumulativeBaselinesRequired == {"records", "days_window"}

\* The keywords run_pipeline passes to compute_cumulative_baselines.
PipelineBaselineKeywords == {"records", "window_days"}

\* A call by keywords binds when every keyword is a declared parameter and
\* every parameter without a default is given; otherwise Python raises
\* TypeError before the callee's body runs.
CallBinds(params, required, keywords) ==
    keywords \subseteq params /\ required \subseteq keywords

PipelineRaised(what) == [status |-> what]

InitPipeline ==
    /\ \E n \in 0..MaxStore :
          \E dates \in {f \in [1..n -> 1..MaxStore] :
                           \A a, b \in 1..n : a # b => f[a] # f[b]} :
              \E vals \in [1..n -> {R(50), R(100)}] :
                  l_store = [k \in 1..n |->
                                ModelsDailyRecord(dates[k], vals[k], None, None, None, None)]
    /\ l_window_days \in {None} \cup {<<w>> : w \in 1..MaxStore}
    /\ l_assumptions \in {[min_history_days |-> m, baseline_window_days |-> 2] :
                             m \in {2, 3}}
    /\ l_pc = "start" /\ l_records_w = <<>> /\ l_out = LNotCalled
    /\ BIdle /\ ZIdle /\ DIdle /\ PIdle /\ SIdle /\ EIdle /\ IIdle

\* Steps 1 and 2: the default window, load and sort, keep the last
\* window_days records.  l_window_days is None or <<n>>.
PipelineWindow ==
    /\ l_pc = "start"
    /\ LET window_days == IF l_window_days = None
                          THEN l_assumptions.min_history_days ELSE l_window_days[1]
           records == SortByDate(l_store)
       IN  /\ l_window_days' = <<window_days>>
           /\ l_records_w' = IF Len(records) > window_days
                             THEN LastN(records, window_days) ELSE records
    /\ l_pc' = "baselines"
    /\ UNCHANGED <<l_store, l_assumptions, l_out,
                   bVars, zVars, dVars, pVars, sVars, eVars, iVars>>

\* Step 3: compute_cumulative_baselines(records=..., window_days=...) does not
\* bind, and the TypeError leaves run_pipeline.
PipelineBaselines ==
    /\ l_pc = "baselines"
    /\ ~CallBinds(CumulativeBaselinesParams, CumulativeBaselinesRequired,
                  PipelineBaselineKeywords)
    /\ l_out' = PipelineRaised("TypeError")
    /\ l_pc' = "done"
    /\ UNCHANGED <<lInputs, l_records_w,
                   bVars, zVars, dVars, pVars, sVars, eVars, iVars>>

NextPipeline == PipelineWindow \/ PipelineBaselines

SpecPipeline == InitPipeline /\ [][NextPipeline]_vars

\* --------------------------------------------------- pipeline properties
PipelineDone == l_pc = "done"

PipelineReturned == PipelineDone /\ l_out.status = "returned"

C28_ShortWindowReported ==
    (PipelineDone /\ Len(l_records_w) < l_assumptions.min_history_days) =>
        /\ PipelineReturned
        /\ l_out.summary.meta.dip_count = 0
        /\ ~l_out.summary.stable
        /\ l_out.summary.meta.stability.reason = "insufficient_history"
        /\ l_out.summary.factors = <<>>
        /\ l_out.summary.meta.pareto.reason = "insufficient_history"
        /\ l_out.summary.insight.confidence = "low"
        /\ l_out.summary.insight.body = NoFactorBody("insufficient_history")


=============================================================================
